---- MODULE Spec2Model ----
(***************************************************************************)
(* A model of csv_schema_validator: the schema fields (schemas.py), the    *)
(* validation engine CSVSchemaValidator and its type checkers              *)
(* (validators.py).                                                        *)
(*                                                                         *)
(* A Python str is modelled as a sequence of one-character strings, so     *)
(* that strip(), lower() and the type checkers are computed character by   *)
(* character.  The alphabet is ASCII.  The object None is PyNone.          *)
(***************************************************************************)
EXTENDS Integers, Sequences, FiniteSets, TLC

\* ------------------------------------------------------------------ bounds
\* Most fields of a schema, most data rows of a file, most cells of a column
\* given to _validate_column_data on its own.
MaxFields == 2
MaxCols == 2
MaxRows == 2
MaxColumnLen == 2
\* The nesting depth at which the interpreter raises RecursionError in
\* json.loads (scaled down from the interpreter's limit).
RecursionLimit == 3
\* how many times the same file is validated
MaxValidations == 2
\* how many schema lookups a run makes
MaxLookups == 3
\* how many (file_path, schema) pairs validate_files is given
MaxPairs == 3
\* how many patterns file_patterns holds
MaxPatterns == 2
\* how many issues a result read on its own holds
MaxIssues == 3
\* how many results _generate_test_summary is given
MaxSummaryFiles == 2

\* ------------------------------------------------------------- Python str
PyNone == <<"None">>

Whitespace == {" ", "\t", "\n", "\r"}

UpperLetters == <<"A","B","C","D","E","F","G","H","I","J","K","L","M",
                  "N","O","P","Q","R","S","T","U","V","W","X","Y","Z">>
LowerLetters == <<"a","b","c","d","e","f","g","h","i","j","k","l","m",
                  "n","o","p","q","r","s","t","u","v","w","x","y","z">>

Letters == {UpperLetters[i] : i \in 1..26} \cup {LowerLetters[i] : i \in 1..26}
Digits == {"0","1","2","3","4","5","6","7","8","9"}
HexDigits == Digits \cup {"a","b","c","d","e","f","A","B","C","D","E","F"}

SetMin(S) == CHOOSE x \in S : \A y \in S : x <= y
SetMax(S) == CHOOSE x \in S : \A y \in S : x >= y

\* str(value): None prints as the four letters "None"
Str(value) == IF value = PyNone THEN <<"N","o","n","e">> ELSE value

\* bool(value) is False for None and for the empty str
Falsy(value) == value = PyNone \/ value = <<>>

LowerChar(c) ==
    IF \E i \in 1..26 : UpperLetters[i] = c
    THEN LowerLetters[CHOOSE i \in 1..26 : UpperLetters[i] = c]
    ELSE c

\* str.lower()
Lower(s) == [i \in 1..Len(s) |-> LowerChar(s[i])]

\* str.strip(chars): drop the leading and trailing characters that are in chars
StripChars(s, chars) ==
    LET keep == {i \in 1..Len(s) : s[i] \notin chars}
    IN IF keep = {} THEN <<>> ELSE SubSeq(s, SetMin(keep), SetMax(keep))

\* str.strip()
Strip(s) == StripChars(s, Whitespace)

\* s[i:] of Python, for a 1-based position i
Tail_(s, i) == SubSeq(s, i, Len(s))

StartsWithAt(s, i, t) ==
    /\ i + Len(t) - 1 <= Len(s)
    /\ \A k \in 1..Len(t) : s[i + k - 1] = t[k]

RECURSIVE ReplaceFrom(_, _, _)
\* str.replace(old, ""): every non-overlapping occurrence, left to right
ReplaceFrom(s, i, old) ==
    IF i > Len(s) THEN <<>>
    ELSE IF StartsWithAt(s, i, old) THEN ReplaceFrom(s, i + Len(old), old)
    ELSE <<s[i]>> \o ReplaceFrom(s, i + 1, old)

Remove(s, old) == ReplaceFrom(s, 1, old)

AllIn(s, chars) == \A i \in 1..Len(s) : s[i] \in chars

\* the positions of s holding a character of chars
Positions(s, chars) == {i \in 1..Len(s) : s[i] \in chars}

\* ------------------------------------------------------------ type checkers
\* digits, with single underscores allowed between two digits (int(), float())
DigitPart(d, digs) ==
    /\ Len(d) > 0
    /\ AllIn(d, digs \cup {"_"})
    /\ d[1] # "_"
    /\ d[Len(d)] # "_"
    /\ \A i \in 1..(Len(d) - 1) : ~(d[i] = "_" /\ d[i + 1] = "_")

\* whether int(value, base) returns (TRUE) or raises ValueError (FALSE), for
\* base 10 and base 16: surrounding whitespace, an optional sign, for base 16
\* an optional 0x prefix, then digits with single underscores between them
PyIntParses(value, base) ==
    LET t == Strip(value)
        u == IF Len(t) > 0 /\ t[1] \in {"+", "-"} THEN Tail_(t, 2) ELSE t
        hasPrefix == base = 16 /\ Len(u) >= 2 /\ u[1] = "0" /\ u[2] \in {"x", "X"}
        v == IF hasPrefix THEN Tail_(u, 3) ELSE u
        w == IF hasPrefix /\ Len(v) > 0 /\ v[1] = "_" THEN Tail_(v, 2) ELSE v
    IN DigitPart(w, IF base = 16 THEN HexDigits ELSE Digits)

\* whether float(value) returns: surrounding whitespace, an optional sign,
\* then inf, infinity or nan in any case, or a decimal number with an optional
\* fraction and exponent
PyFloatParses(value) ==
    LET t == Strip(value)
        u == IF Len(t) > 0 /\ t[1] \in {"+", "-"} THEN Tail_(t, 2) ELSE t
        es == Positions(u, {"e", "E"})
        e == IF es = {} THEN Len(u) + 1 ELSE SetMin(es)
        mant == SubSeq(u, 1, e - 1)
        expo == Tail_(u, e + 1)
        expDigits == IF Len(expo) > 0 /\ expo[1] \in {"+", "-"}
                     THEN Tail_(expo, 2) ELSE expo
        dots == Positions(mant, {"."})
        dot == IF dots = {} THEN Len(mant) + 1 ELSE SetMin(dots)
        ipart == SubSeq(mant, 1, dot - 1)
        fpart == Tail_(mant, dot + 1)
    IN \/ Lower(u) \in {<<"i","n","f">>, <<"n","a","n">>,
                        <<"i","n","f","i","n","i","t","y">>}
       \/ /\ es = {} \/ DigitPart(expDigits, Digits)
          /\ Cardinality(dots) <= 1
          /\ ipart # <<>> \/ fpart # <<>>
          /\ ipart = <<>> \/ DigitPart(ipart, Digits)
          /\ fpart = <<>> \/ DigitPart(fpart, Digits)

is_valid_integer(value) == PyIntParses(value, 10)

is_valid_float(value) == PyFloatParses(value)

is_valid_boolean(value) ==
    Lower(value) \in {<<"t","r","u","e">>, <<"f","a","l","s","e">>}

\* uuid.UUID(value): the urn: and uuid: prefixes and the braces and hyphens are
\* dropped, 32 characters must remain, and int(hex, 16) must parse them
is_valid_uuid(value) ==
    LET h1 == Remove(Remove(value, <<"u","r","n",":">>), <<"u","u","i","d",":">>)
        h2 == Remove(StripChars(h1, {"{", "}"}), <<"-">>)
    IN Len(h2) = 32 /\ PyIntParses(h2, 16)

EmailLocalChars == Letters \cup Digits \cup {".", "_", "%", "+", "-"}
EmailDomainChars == Letters \cup Digits \cup {".", "-"}

\* ^[a-zA-Z0-9._%+-]+@[a-zA-Z0-9.-]+\.[a-zA-Z]{2,}$ matched against all of v
EmailMatch(v) ==
    \E i \in 1..Len(v), j \in 1..Len(v) :
        /\ v[i] = "@"
        /\ i > 1
        /\ AllIn(SubSeq(v, 1, i - 1), EmailLocalChars)
        /\ v[j] = "."
        /\ j > i + 1
        /\ AllIn(SubSeq(v, i + 1, j - 1), EmailDomainChars)
        /\ Len(v) - j >= 2
        /\ AllIn(Tail_(v, j + 1), Letters)

\* where a pattern ending in $ may end its match: at the end of the value, or
\* just before a final newline
DollarEnds(value) ==
    IF Len(value) > 0 /\ value[Len(value)] = "\n"
    THEN {value, SubSeq(value, 1, Len(value) - 1)}
    ELSE {value}

is_valid_email(value) == \E v \in DollarEnds(value) : EmailMatch(v)

SchemeChars == Letters \cup Digits \cup {"+", "-", "."}

\* urlparse(value): its scheme and netloc, or ValueError raised for unbalanced
\* brackets in the netloc (the check of a bracketed host as an IP address is
\* not modelled: no cell of the model holds a bracket)
UrlSplit(value) ==
    LET lead == {i \in 1..Len(value) : value[i] \notin Whitespace}
        url0 == IF lead = {} THEN <<>> ELSE Tail_(value, SetMin(lead))
        url1 == Remove(Remove(Remove(url0, <<"\t">>), <<"\r">>), <<"\n">>)
        colons == Positions(url1, {":"})
        i == IF colons = {} THEN 0 ELSE SetMin(colons)
        hasScheme == /\ i > 1
                     /\ url1[1] \in Letters
                     /\ AllIn(SubSeq(url1, 1, i - 1), SchemeChars)
        scheme == IF hasScheme THEN Lower(SubSeq(url1, 1, i - 1)) ELSE <<>>
        rest == IF hasScheme THEN Tail_(url1, i + 1) ELSE url1
        hasNetloc == Len(rest) >= 2 /\ rest[1] = "/" /\ rest[2] = "/"
        ends == {k \in 3..Len(rest) : rest[k] \in {"/", "?", "#"}}
        stop == IF ends = {} THEN Len(rest) + 1 ELSE SetMin(ends)
        netloc == IF hasNetloc THEN SubSeq(rest, 3, stop - 1) ELSE <<>>
        open == Positions(netloc, {"["}) # {}
        close == Positions(netloc, {"]"}) # {}
    IN [raises |-> open # close, scheme |-> scheme, netloc |-> netloc]

is_valid_url(value) ==
    LET result == UrlSplit(value)
    IN ~result.raises /\ result.scheme # <<>> /\ result.netloc # <<>>

\* the format_pattern values of a field: none, the timestamp pattern of the
\* built-in schemas, and a pattern that re cannot compile
NoPattern == "None"
TimestampPattern == "^\\d{4}-\\d{2}-\\d{2} \\d{2}:\\d{2}:\\d{2}\\.\\d{3}$"
InvalidPattern == "("
FormatPatterns == {NoPattern, TimestampPattern, InvalidPattern}

\* ^\d{4}-\d{2}-\d{2} \d{2}:\d{2}:\d{2}\.\d{3}$ matched against all of v
TimestampMatch(v) ==
    /\ Len(v) = 23
    /\ \A i \in 1..23 :
          CASE i \in {5, 8} -> v[i] = "-"
            [] i = 11 -> v[i] = " "
            [] i \in {14, 17} -> v[i] = ":"
            [] i = 20 -> v[i] = "."
            [] OTHER -> v[i] \in Digits

DigitValue(c) == CHOOSE n \in 0..9 : <<"0","1","2","3","4","5","6","7","8","9">>[n + 1] = c

RECURSIVE NumValue(_)
NumValue(d) ==
    IF d = <<>> THEN 0
    ELSE 10 * NumValue(SubSeq(d, 1, Len(d) - 1)) + DigitValue(d[Len(d)])

\* the length of the run of digits of s that starts at position i
DigitRun(s, i) ==
    LET stops == {k \in i..Len(s) : s[k] \notin Digits}
    IN IF stops = {} THEN Len(s) + 1 - i ELSE SetMin(stops) - i

DaysInMonth(y, m) ==
    IF m = 2
    THEN IF (y % 4 = 0 /\ y % 100 # 0) \/ y % 400 = 0 THEN 29 ELSE 28
    ELSE IF m \in {4, 6, 9, 11} THEN 30 ELSE 31

\* the common formats of _is_valid_datetime, one element per directive or
\* literal character
CommonFormats ==
    << <<"Y","-","m","-","d"," ","H",":","M",":","S",".","f">>,
       <<"Y","-","m","-","d"," ","H",":","M",":","S">>,
       <<"Y","-","m","-","d","T","H",":","M",":","S",".","f","Z">>,
       <<"Y","-","m","-","d","T","H",":","M",":","S","Z">> >>

RECURSIVE StrptimeFrom(_, _, _, _, _)
\* datetime.strptime(s, fmt) from position i of s and element k of fmt, with
\* the year and month read so far: TRUE when it returns, FALSE for ValueError.
\* A directive takes the run of digits at i, a blank of the format takes one or
\* more whitespace characters, a letter matches in either case.
StrptimeFrom(s, i, fmt, k, ym) ==
    IF k > Len(fmt) THEN i = Len(s) + 1
    ELSE LET t == fmt[k]
             n == DigitRun(s, i)
             val == NumValue(SubSeq(s, i, i + n - 1))
         IN CASE t = "Y" ->
                   n = 4 /\ val >= 1 /\ StrptimeFrom(s, i + 4, fmt, k + 1, <<val, 0>>)
              [] t = "m" ->
                   n \in {1, 2} /\ val \in 1..12
                   /\ StrptimeFrom(s, i + n, fmt, k + 1, <<ym[1], val>>)
              [] t = "d" ->
                   \/ n \in {1, 2} /\ val \in 1..DaysInMonth(ym[1], ym[2])
                      /\ StrptimeFrom(s, i + n, fmt, k + 1, ym)
                   \/ i + 1 <= Len(s) /\ s[i] = " " /\ s[i + 1] \in Digits \ {"0"}
                      /\ DigitRun(s, i + 1) = 1
                      /\ StrptimeFrom(s, i + 2, fmt, k + 1, ym)
              [] t = "H" ->
                   n \in {1, 2} /\ val \in 0..23 /\ StrptimeFrom(s, i + n, fmt, k + 1, ym)
              [] t \in {"M", "S"} ->
                   n \in {1, 2} /\ val \in 0..59 /\ StrptimeFrom(s, i + n, fmt, k + 1, ym)
              [] t = "f" ->
                   n \in 1..6 /\ StrptimeFrom(s, i + n, fmt, k + 1, ym)
              [] t = " " ->
                   \E j \in (i + 1)..(Len(s) + 1) :
                       /\ AllIn(SubSeq(s, i, j - 1), Whitespace)
                       /\ StrptimeFrom(s, j, fmt, k + 1, ym)
              [] OTHER ->
                   i <= Len(s) /\ LowerChar(s[i]) = LowerChar(t)
                   /\ StrptimeFrom(s, i + 1, fmt, k + 1, ym)

StrptimeParses(s, fmt) == StrptimeFrom(s, 1, fmt, 1, <<0, 0>>)

is_valid_datetime(value, pattern) ==
    IF pattern = TimestampPattern
    THEN \E v \in DollarEnds(value) : TimestampMatch(v)
    ELSE \* no pattern, or re.error caught: try the common formats
         \E f \in 1..Len(CommonFormats) : StrptimeParses(value, CommonFormats[f])

\* ------------------------------------------------------------- json.loads
JsonWhitespace == {" ", "\t", "\n", "\r"}

\* the first position at or after i that holds no JSON whitespace
SkipWs(s, i) ==
    LET stops == {k \in i..Len(s) : s[k] \notin JsonWhitespace}
    IN IF stops = {} THEN Len(s) + 1 ELSE SetMin(stops)

JsonOk(pos, kind) == [st |-> "ok", pos |-> pos, kind |-> kind]
JsonErr == [st |-> "JSONDecodeError", pos |-> 0, kind |-> "none"]
JsonRec == [st |-> "RecursionError", pos |-> 0, kind |-> "none"]

RECURSIVE JsonStringEnd(_, _)
\* a string whose opening quote is before position i: the position after its
\* closing quote, 0 when it is unterminated, holds a control character or a
\* bad escape
JsonStringEnd(s, i) ==
    IF i > Len(s) THEN 0
    ELSE IF s[i] = "\"" THEN i + 1
    ELSE IF s[i] \in {"\t", "\n", "\r"} THEN 0
    ELSE IF s[i] # "\\" THEN JsonStringEnd(s, i + 1)
    ELSE IF i + 1 > Len(s) THEN 0
    ELSE IF s[i + 1] \in {"\"", "\\", "/", "b", "f", "n", "r", "t"}
         THEN JsonStringEnd(s, i + 2)
    ELSE IF /\ s[i + 1] = "u"
            /\ i + 5 <= Len(s)
            /\ AllIn(SubSeq(s, i + 2, i + 5), HexDigits)
         THEN JsonStringEnd(s, i + 6)
    ELSE 0

\* NUMBER_RE (-?(?:0|[1-9]\d*))(\.\d+)?([eE][-+]?\d+)? at position i: the
\* position after the match, 0 when there is none
JsonNumberEnd(s, i) ==
    LET a == IF i <= Len(s) /\ s[i] = "-" THEN i + 1 ELSE i
        n == DigitRun(s, a)
        b == IF n = 0 THEN 0 ELSE IF s[a] = "0" THEN a + 1 ELSE a + n
        fn == IF b > 0 /\ b <= Len(s) /\ s[b] = "." THEN DigitRun(s, b + 1) ELSE 0
        c == IF fn > 0 THEN b + 1 + fn ELSE b
        hasE == c > 0 /\ c <= Len(s) /\ s[c] \in {"e", "E"}
        d == IF hasE /\ c + 1 <= Len(s) /\ s[c + 1] \in {"+", "-"} THEN c + 2 ELSE c + 1
        en == IF hasE THEN DigitRun(s, d) ELSE 0
    IN IF b = 0 THEN 0 ELSE IF en > 0 THEN d + en ELSE c

JsonLiterals ==
    { <<"n","u","l","l">>, <<"t","r","u","e">>, <<"f","a","l","s","e">>,
      <<"N","a","N">>, <<"I","n","f","i","n","i","t","y">>,
      <<"-","I","n","f","i","n","i","t","y">> }

RECURSIVE JsonValue(_, _, _), JsonArrayItems(_, _, _), JsonObjectPairs(_, _, _)

\* after an item of an array, at position k: the closing bracket, or a comma
\* and the next item
JsonArrayNext(s, k, depth) ==
    IF k > Len(s) THEN JsonErr
    ELSE IF s[k] = "]" THEN JsonOk(k + 1, "list")
    ELSE IF s[k] = "," THEN JsonArrayItems(s, SkipWs(s, k + 1), depth)
    ELSE JsonErr

JsonArrayAfter(s, v, depth) ==
    IF v.st # "ok" THEN v ELSE JsonArrayNext(s, SkipWs(s, v.pos), depth)

\* the items of an array from position i, after the bracket or a comma
JsonArrayItems(s, i, depth) == JsonArrayAfter(s, JsonValue(s, i, depth), depth)

\* after a pair of an object, at position k: the closing brace, or a comma
\* and the next pair
JsonPairNext(s, k, depth) ==
    IF k > Len(s) THEN JsonErr
    ELSE IF s[k] = "}" THEN JsonOk(k + 1, "dict")
    ELSE IF s[k] = "," THEN JsonObjectPairs(s, SkipWs(s, k + 1), depth)
    ELSE JsonErr

JsonPairAfter(s, v, depth) ==
    IF v.st # "ok" THEN v ELSE JsonPairNext(s, SkipWs(s, v.pos), depth)

\* the colon at position c and the value after it
JsonPairValue(s, c, depth) ==
    IF c > Len(s) THEN JsonErr
    ELSE IF s[c] # ":" THEN JsonErr
    ELSE JsonPairAfter(s, JsonValue(s, SkipWs(s, c + 1), depth), depth)

\* a key that ends before position e (0: no key), then the rest of the pair
JsonPairKey(s, e, depth) ==
    IF e = 0 THEN JsonErr ELSE JsonPairValue(s, SkipWs(s, e), depth)

\* the key : value pairs of an object from position i
JsonObjectPairs(s, i, depth) ==
    IF i > Len(s) THEN JsonErr
    ELSE IF s[i] # "\"" THEN JsonErr
    ELSE JsonPairKey(s, JsonStringEnd(s, i + 1), depth)

\* a token that ends before position e (0: no token)
JsonToken(e, kind) == IF e = 0 THEN JsonErr ELSE JsonOk(e, kind)

\* an array or object opened at position i, whose content starts at j
JsonOpen(s, i, j, depth) ==
    IF s[i] = "["
    THEN IF j <= Len(s) /\ s[j] = "]" THEN JsonOk(j + 1, "list")
         ELSE JsonArrayItems(s, j, depth)
    ELSE IF j <= Len(s) /\ s[j] = "}" THEN JsonOk(j + 1, "dict")
         ELSE JsonObjectPairs(s, j, depth)

\* scan_once at position i inside depth enclosing arrays and objects: entering
\* one more array or object beyond RecursionLimit raises RecursionError
JsonValue(s, i, depth) ==
    IF i > Len(s) THEN JsonErr
    ELSE IF s[i] = "\"" THEN JsonToken(JsonStringEnd(s, i + 1), "str")
    ELSE IF s[i] \in {"[", "{"} THEN
        IF depth + 1 > RecursionLimit THEN JsonRec
        ELSE JsonOpen(s, i, SkipWs(s, i + 1), depth + 1)
    ELSE IF \E lit \in JsonLiterals : StartsWithAt(s, i, lit) THEN
        JsonOk(i + Len(CHOOSE lit \in JsonLiterals : StartsWithAt(s, i, lit)), "scalar")
    ELSE JsonToken(JsonNumberEnd(s, i), "scalar")

\* decode: the value, then nothing but whitespace
JsonDecoded(value, v) ==
    IF v.st # "ok" THEN v.st
    ELSE IF SkipWs(value, v.pos) = Len(value) + 1 THEN v.kind
    ELSE "JSONDecodeError"

\* json.loads(value): the type of the parsed value ("list", "dict", "str",
\* "scalar"), or the exception raised
JsonLoads(value) == JsonDecoded(value, JsonValue(value, SkipWs(value, 1), 0))

\* a JSON checker: "True" or "False" returned, or "RecursionError", which is
\* not among the exceptions the checker catches
JsonChecked(loaded, wanted) ==
    IF loaded = "RecursionError" THEN "RecursionError"
    ELSE IF loaded = wanted THEN "True"
    ELSE "False"

is_valid_json_array(value) == JsonChecked(JsonLoads(value), "list")

is_valid_json_object(value) == JsonChecked(JsonLoads(value), "dict")

\* ----------------------------------------------------------- schema fields
DataTypes == {"string", "integer", "float", "boolean", "uuid", "datetime",
              "json_array", "json_object", "url", "email"}

\* the default_value of a field: None, or some value, such as the empty
\* string and False, which are falsy and are not None
NoDefault == "None"
SomeDefault == "default"
EmptyDefault == ""
FalseDefault == "False"
DefaultValues == {NoDefault, SomeDefault, EmptyDefault, FalseDefault}

\* SchemaField.__post_init__: TRUE when construction returns, FALSE when it
\* raises ValueError
\* a variant that takes every falsy default value as unset
PostInitReturnsTruthy(f) ==
    ~(/\ ~f.nullable
      /\ f.required
      /\ f.default_value \in {NoDefault, EmptyDefault, FalseDefault}
      /\ f.data_type \notin {"uuid", "datetime"})

PostInitReturns(f) ==
    ~(/\ ~f.nullable
      /\ f.required
      /\ f.default_value = NoDefault
      /\ f.data_type \notin {"uuid", "datetime"})

SchemaField(name, data_type, required, nullable, default_value, format_pattern) ==
    [name |-> name, data_type |-> data_type, required |-> required,
     nullable |-> nullable, default_value |-> default_value,
     format_pattern |-> format_pattern]

\* ------------------------------------------------------ issues and results
NoRow == <<>>
NoValue == PyNone

ValidationIssue(field_name, issue_type, severity, expected_value, actual_value, row_number) ==
    [field_name |-> field_name, issue_type |-> issue_type, severity |-> severity,
     expected_value |-> expected_value, actual_value |-> actual_value,
     row_number |-> row_number]

ValidationResult(file_path, schema_name, is_valid, total_rows, total_columns, issues_, missing, extra) ==
    [file_path |-> file_path, schema_name |-> schema_name, is_valid |-> is_valid,
     total_rows |-> total_rows, total_columns |-> total_columns,
     issues |-> issues_, missing_columns |-> missing, extra_columns |-> extra]

CountSeverity(issues_, severity) ==
    Cardinality({i \in 1..Len(issues_) : issues_[i].severity = severity})

\* a variant that takes every issue that is neither a warning nor an info for
\* an error
ErrorCountOfTheRest(r) ==
    Len(r.issues) - CountSeverity(r.issues, "warning") - CountSeverity(r.issues, "info")

error_count(r) == CountSeverity(r.issues, "error")
warning_count(r) == CountSeverity(r.issues, "warning")
info_count(r) == CountSeverity(r.issues, "info")

\* ------------------------------------------------------------ cell checks
Null == <<"n","u","l","l">>

\* what a check hands back: the issues it returns, or an exception raised
Returns(issues_) == [raised |-> FALSE, issues |-> issues_]
Raises == [raised |-> TRUE, issues |-> <<>>]

\* a variant that leaves the expected value out
TypeIssueUnexpected(column_name, issue_type, value, row_number, expected_value) ==
    ValidationIssue(column_name, issue_type, "error", NoPattern, value,
                    <<row_number>>)

TypeIssue(column_name, issue_type, value, row_number, expected_value) ==
    ValidationIssue(column_name, issue_type, "error", expected_value, value,
                    <<row_number>>)

IssueIfNot(ok, column_name, issue_type, value, row_number, expected_value) ==
    IF ok THEN Returns(<<>>)
    ELSE Returns(<<TypeIssue(column_name, issue_type, value, row_number,
                             expected_value)>>)

\* the same for a JSON checker, whose exception is raised on
IssueIfNotJson(checked, column_name, issue_type, value, row_number) ==
    IF checked = "RecursionError" THEN Raises
    ELSE IssueIfNot(checked = "True", column_name, issue_type, value, row_number,
                    NoPattern)

validate_single_value(column_name, value, field, row_number) ==
    IF value = <<>> \/ Lower(value) = Null THEN Returns(<<>>)
    ELSE CASE field.data_type = "uuid" ->
                IssueIfNot(is_valid_uuid(value),
                           column_name, "invalid_uuid", value, row_number, NoPattern)
           [] field.data_type = "email" ->
                IssueIfNot(~(Lower(value) # Null /\ ~is_valid_email(value)),
                           column_name, "invalid_email", value, row_number, NoPattern)
           [] field.data_type = "url" ->
                IssueIfNot(~(Lower(value) # Null /\ ~is_valid_url(value)),
                           column_name, "invalid_url", value, row_number, NoPattern)
           [] field.data_type = "datetime" ->
                IssueIfNot(is_valid_datetime(value, field.format_pattern),
                           column_name, "invalid_datetime", value, row_number,
                           field.format_pattern)
           [] field.data_type = "json_array" ->
                IssueIfNotJson(is_valid_json_array(value),
                               column_name, "invalid_json_array", value, row_number)
           [] field.data_type = "json_object" ->
                IssueIfNotJson(is_valid_json_object(value),
                               column_name, "invalid_json_object", value, row_number)
           [] field.data_type = "integer" ->
                IssueIfNot(is_valid_integer(value),
                           column_name, "invalid_integer", value, row_number, NoPattern)
           [] field.data_type = "float" ->
                IssueIfNot(is_valid_float(value),
                           column_name, "invalid_float", value, row_number, NoPattern)
           [] field.data_type = "boolean" ->
                IssueIfNot(is_valid_boolean(value),
                           column_name, "invalid_boolean", value, row_number, NoPattern)
           [] OTHER -> Returns(<<>>)

\* a variant that takes only the empty string as missing
MissingOnly(value) == value = <<>>

\* the condition of lines 227-231: the value is missing or null
MissingOrNull(value) ==
    \/ Falsy(value)
    \/ Strip(Str(value)) = <<>>
    \/ Lower(Strip(Str(value))) = Null

\* a variant that numbers the data rows from 1
ValidateStrippedFromOne(column_name, str_value, field, row_idx) ==
    IF str_value = <<>> \/ Lower(str_value) = Null
    THEN Returns(<<>>)
    ELSE validate_single_value(column_name, str_value, field, row_idx + 1)

\* lines 246-254 for a cell, given str(value).strip()
ValidateStripped(column_name, str_value, field, row_idx) ==
    IF str_value = <<>> \/ Lower(str_value) = Null
    THEN Returns(<<>>)
    ELSE validate_single_value(column_name, str_value, field, row_idx + 2)

\* a variant that takes a required field as not nullable
ValidateCellIgnoringNullable(column_name, value, field, row_idx) ==
    IF field.required /\ MissingOrNull(value)
    THEN Returns(<<ValidationIssue(column_name, "required_field_missing", "error",
                                   NoPattern, Str(value), <<row_idx + 2>>)>>)
    ELSE ValidateStripped(column_name, Strip(Str(value)), field, row_idx)

\* a variant without the continue of line 244: the type check follows the
\* required_field_missing issue
ValidateCellWithoutContinue(column_name, value, field, row_idx) ==
    LET checked == ValidateStripped(column_name, Strip(Str(value)), field, row_idx)
    IN IF field.required /\ ~field.nullable /\ MissingOrNull(value)
       THEN IF checked.raised THEN Raises
            ELSE Returns(<<ValidationIssue(column_name, "required_field_missing", "error",
                                           NoPattern, Str(value), <<row_idx + 2>>)>>
                         \o checked.issues)
       ELSE checked

\* one iteration of the loop of _validate_column_data, for the 0-based row_idx
ValidateCell(column_name, value, field, row_idx) ==
    IF field.required /\ ~field.nullable /\ MissingOrNull(value)
    THEN Returns(<<ValidationIssue(column_name, "required_field_missing", "error",
                                   NoPattern, Str(value), <<row_idx + 2>>)>>)
    ELSE ValidateStripped(column_name, Strip(Str(value)), field, row_idx)

\* issues.extend for the following rows, unless one raises
ExtendWith(cell, rest) ==
    IF rest.raised THEN Raises ELSE Returns(cell.issues \o rest.issues)

RECURSIVE ValidateColumnFrom(_, _, _, _)

\* a variant that returns at the first cell with an issue
ValidateColumnStepStopping(column_name, column_data, field, row_idx, cell) ==
    IF cell.raised THEN Raises
    ELSE IF cell.issues # <<>> THEN Returns(cell.issues)
    ELSE ExtendWith(cell, ValidateColumnFrom(column_name, column_data, field,
                                             row_idx + 1))

\* the cell of row_idx is checked: an exception ends the loop
ValidateColumnStep(column_name, column_data, field, row_idx, cell) ==
    IF cell.raised THEN Raises
    ELSE ExtendWith(cell, ValidateColumnFrom(column_name, column_data, field,
                                             row_idx + 1))

\* the loop of _validate_column_data from row_idx on
ValidateColumnFrom(column_name, column_data, field, row_idx) ==
    IF row_idx >= Len(column_data) THEN Returns(<<>>)
    ELSE ValidateColumnStep(column_name, column_data, field, row_idx,
             ValidateCell(column_name, column_data[row_idx + 1], field, row_idx))

validate_column_data(column_name, column_data, field) ==
    ValidateColumnFrom(column_name, column_data, field, 0)

\* ------------------------------------------------------------------ inputs
SeqsUpTo(S, n) == UNION {[1..k -> S] : k \in 0..n}

Range(f) == {f[i] : i \in DOMAIN f}

Distinct(f) == \A i, j \in DOMAIN f : i # j => f[i] # f[j]

\* every order in which the elements of the set S can be iterated
Orders(S) == {f \in [1..Cardinality(S) -> S] : Distinct(f)}

\* the elements of the set S in the order of the sequence ranking, which
\* holds each of them once
OrderedBy(S, ranking) ==
    LET at(e) == CHOOSE i \in DOMAIN ranking : ranking[i] = e
        nth(k) == CHOOSE e \in S : Cardinality({d \in S : at(d) < at(e)}) = k - 1
    IN [k \in 1..Cardinality(S) |-> nth(k)]

\* sample cells
Empty == <<>>
Blank == <<" ">>
PaddedNull == <<" ","N","U","L","L"," ">>
Seven == <<"7">>
Word == <<"x">>
\* more opening brackets than json.loads can nest
DeepArray == [i \in 1..(RecursionLimit + 1) |-> "["]

\* The schemas given to the engine: fields with distinct names, constructed by
\* SchemaField (so __post_init__ returned).  Field a holds integers and field
\* b JSON arrays.
SchemaNames == {"a", "b"}

\* The hash seeds of a process, told apart by the orders in which they make
\* the set of the required columns and the set of the common columns iterate.
HashSeeds == [required : Orders(SchemaNames), common : Orders(SchemaNames)]

\* one ranking for each order in which the set S can iterate
RankingsApart(S) ==
    {r \in Orders(SchemaNames) :
        r = CHOOSE q \in Orders(SchemaNames) : OrderedBy(S, q) = OrderedBy(S, r)}

\* one hash seed for each pair of orders in which the required columns of the
\* schema sc and its columns in the header can iterate
HashSeedsApart(sc, header) ==
    [required : RankingsApart({sc[i].name : i \in {j \in DOMAIN sc : sc[j].required}}),
     common : RankingsApart({sc[i].name : i \in DOMAIN sc} \cap Range(header))]
EngineFields ==
    {f \in {SchemaField(n, IF n = "a" THEN "integer" ELSE "json_array", r, nl,
                        IF r /\ ~nl THEN SomeDefault ELSE NoDefault, NoPattern) :
                n \in SchemaNames, r \in BOOLEAN, nl \in BOOLEAN} :
        PostInitReturns(f)}
Schemas ==
    {sc \in SeqsUpTo(EngineFields, MaxFields) :
        \A i, j \in DOMAIN sc : i # j => sc[i].name # sc[j].name}

\* The files given to the engine, as the csv module reads them: a path that
\* does not exist, a file that open, Sniffer.sniff or DictReader raises on, or
\* a header row of distinct names and data rows.  A data row holds one cell
\* per header column, except that the last row of a file may lack its last
\* cell.  The cells of a column that is in no schema are never read, and are
\* empty.  The header is empty when the first line of the file is blank: the
\* lines after it are then data rows without a named cell.
HeaderNames == {"a", "b", "x", "y"}
Headers == {h \in SeqsUpTo(HeaderNames, MaxCols) : Distinct(h)}
EngineCells == {Empty, DeepArray}
CellsUnder(name) == IF name \in SchemaNames THEN EngineCells ELSE {Empty}
FullRows(header) ==
    {r \in [1..Len(header) -> EngineCells] :
        \A i \in 1..Len(header) : r[i] \in CellsUnder(header[i])}
ShortRows(header) ==
    {SubSeq(r, 1, Len(r) - 1) : r \in {q \in FullRows(header) : Len(q) >= 2}}
RowLists(header) ==
    IF header = <<>> THEN {rs \in SeqsUpTo({<<>>}, MaxRows) : rs # <<>>}
    ELSE {rs \in SeqsUpTo(FullRows(header) \cup ShortRows(header), MaxRows) :
             \A i \in 1..(Len(rs) - 1) : rs[i] \in FullRows(header)}
CsvFile(path, exists, readable, header, rows) ==
    [path |-> path, exists |-> exists, readable |-> readable,
     header |-> header, rows |-> rows, stat_raises |-> FALSE]

\* A path no file is at and whose name is longer than the file system takes
\* (300 letters): os.stat fails with ENAMETOOLONG, an OSError that
\* Path.exists() does not take for an answer and raises.
OverlongPath ==
    [CsvFile("overlong.csv", FALSE, FALSE, <<>>, <<>>) EXCEPT !.stat_raises = TRUE]

Files ==
    {CsvFile("missing.csv", FALSE, FALSE, <<>>, <<>>),
     CsvFile("broken.csv", TRUE, FALSE, <<>>, <<>>),
     OverlongPath}
    \cup UNION {{CsvFile("data.csv", TRUE, TRUE, h, rs) : rs \in RowLists(h)} :
                   h \in Headers}

\* -------------------------------------------------------------- the engine
VARIABLES
    schema,            \* the schema given to CSVSchemaValidator
    file,              \* the file at the path given to validate_file
    schema_fields,     \* self.schema_fields
    required_columns,  \* self.required_columns
    schema_name,       \* self.schema_name
    pc,                \* where validate_file is
    csv_columns,       \* validate_file's csv_columns
    csv_data,          \* validate_file's csv_data
    missing_columns,   \* validate_file's missing_columns
    extra_columns,     \* validate_file's extra_columns
    issues,            \* the issues collected so far
    pending,           \* the common columns _validate_data_content has not reached
    results,           \* the ValidationResults returned, in order
    column_field,      \* _validate_column_data called on its own: its field,
    column_data,       \*   its column_data,
    column_out,        \*   and what it returned or raised
    hash_seed,         \* the string hash seed of the running Python process
    field_args,        \* SchemaField(...) called on its own: its arguments
    field_out,         \*   and whether it returned or raised
    lookups,           \* the schema lookups made, each with what it returned or raised
    batch_call,        \* the BatchValidator method called, with its arguments
    batch_pc,          \* where that method is
    batch_index,       \* how many files its loops have passed
    batch_results,     \* its results dict
    held,              \* a ValidationResult a caller holds
    counts,            \* what its three count properties returned when last read
    summary_call,      \* the arguments _generate_test_summary is called with
    summary            \* the dict it returned

validator == <<schema, file, schema_fields, required_columns, schema_name>>
unit == <<column_field, column_data, column_out>>
process == <<hash_seed>>
construction == <<field_args, field_out>>
\* what no step of validate_file changes
batch == <<batch_call, batch_pc, batch_index, batch_results>>
reading == <<held, counts>>
summarising == <<summary_call, summary>>
apart == <<unit, process, construction, lookups, batch, reading, summarising>>
engine == <<pc, csv_columns, csv_data, missing_columns, extra_columns, issues,
            pending, results>>
vars == <<validator, apart, pc, csv_columns, csv_data, missing_columns,
          extra_columns, issues, pending, results>>

\* csv.DictReader's row for a raw row: the cells by header name (the last of
\* equal names wins), None for the names the row is too short for
DictRow(fieldnames, raw) ==
    [k \in Range(fieldnames) |->
        LET last == SetMax({i \in 1..Len(fieldnames) : fieldnames[i] = k})
        IN IF last <= Len(raw) THEN raw[last] ELSE PyNone]

\* row.get(column_name, "")
RowGet(row, column_name) ==
    IF column_name \in DOMAIN row THEN row[column_name] ELSE <<>>

\* CSVSchemaValidator.__init__: the dict of the fields by name (the last field
\* of a name wins) and the set of the required names
InitSchemaFields(sc) ==
    [n \in {sc[i].name : i \in 1..Len(sc)} |->
        sc[SetMax({i \in 1..Len(sc) : sc[i].name = n})]]

\* a variant that takes a nullable field as not required
RequiredNonNullableColumns(sc) ==
    {sc[i].name : i \in {j \in 1..Len(sc) : sc[j].required /\ ~sc[j].nullable}}

InitRequiredColumns(sc) ==
    {sc[i].name : i \in {j \in 1..Len(sc) : sc[j].required}}

NotCalled == [called |-> FALSE, raised |-> FALSE, issues |-> <<>>]
Called(out) == [called |-> TRUE, raised |-> out.raised, issues |-> out.issues]

\* nothing but validate_file is called
NoColumnCall ==
    /\ column_field = SchemaField("a", "string", FALSE, TRUE, NoDefault, NoPattern)
    /\ column_data = <<>>
    /\ column_out = NotCalled

\* no schema has been looked up by name
NoLookup == lookups = {}

NotRead == [read |-> FALSE, error |-> 0, warning |-> 0, info |-> 0]

\* _generate_test_summary is not called
NoSummary ==
    /\ summary_call = [results |-> <<>>, include_warnings |-> TRUE]
    /\ summary = [called |-> FALSE]

\* no caller reads the counts of a result
NoReading ==
    /\ held = ValidationResult("data.csv", "unknown", TRUE, 0, 0, <<>>, <<>>, <<>>)
    /\ counts = NotRead

\* no method of BatchValidator is called
NoBatch ==
    /\ batch_call = [method |-> "none"]
    /\ batch_pc = "idle"
    /\ batch_index = 0
    /\ batch_results = <<>>

NoConstruction ==
    /\ field_args = SchemaField("a", "string", FALSE, TRUE, NoDefault, NoPattern)
    /\ field_out = NotCalled

\* no validator is constructed and validate_file is not called
NoValidation ==
    /\ hash_seed = CHOOSE seed \in HashSeeds : TRUE
    /\ schema = <<>>
    /\ file = CsvFile("missing.csv", FALSE, FALSE, <<>>, <<>>)
    /\ schema_fields = <<>>
    /\ required_columns = {}
    /\ schema_name = "unknown"
    /\ pc = "idle"
    /\ csv_columns = <<>>
    /\ csv_data = <<>>
    /\ missing_columns = <<>>
    /\ extra_columns = <<>>
    /\ issues = <<>>
    /\ pending = {}
    /\ results = <<>>

\* a validator constructed for a schema, and a file to validate
Init ==
    /\ schema \in Schemas
    /\ file \in Files
    /\ schema_fields = InitSchemaFields(schema)
    /\ required_columns = InitRequiredColumns(schema)
    /\ schema_name = "unknown"
    /\ pc = "ready"
    /\ csv_columns = <<>>
    /\ csv_data = <<>>
    /\ missing_columns = <<>>
    /\ extra_columns = <<>>
    /\ issues = <<>>
    /\ pending = {}
    /\ results = <<>>
    /\ hash_seed \in HashSeedsApart(schema, file.header)
    /\ NoColumnCall
    /\ NoConstruction /\ NoLookup /\ NoBatch /\ NoReading /\ NoSummary

FileIssue(issue_type) ==
    ValidationIssue("file", issue_type, "error", NoPattern, NoValue, NoRow)

\* a variant that names the path in the issue and counts the file's columns
FileNotFoundNamingPath ==
    ValidationResult(file.path, schema_name, FALSE, 0, Len(file.header),
                     <<ValidationIssue(file.path, "file_not_found", "error",
                                       NoPattern, NoValue, NoRow)>>, <<>>, <<>>)

\* the result of lines 83-101
FileNotFoundResult ==
    ValidationResult(file.path, schema_name, FALSE, 0, 0,
                     <<FileIssue("file_not_found")>>, <<>>, <<>>)

\* a variant that keeps what was collected before the exception
ParseErrorKeepingIssues ==
    ValidationResult(file.path, schema_name, FALSE, Len(csv_data), Len(csv_columns),
                     Append(issues, FileIssue("parse_error")),
                     missing_columns, extra_columns)

\* the result of the except clause, lines 167-189
ParseErrorResult ==
    ValidationResult(file.path, schema_name, FALSE, 0, 0,
                     <<FileIssue("parse_error")>>, <<>>, <<>>)

\* validate_file, line 82: file_path.exists() raises, outside the try
\* statement, and so does validate_file
ExistsRaises ==
    /\ pc = "ready"
    /\ file.stat_raises
    /\ pc' = "raised"
    /\ UNCHANGED <<validator, apart, csv_columns, csv_data, missing_columns, extra_columns, issues,
                   pending, results>>

\* validate_file, lines 82-101: the path does not exist
FileNotFound ==
    /\ pc = "ready"
    /\ ~file.stat_raises
    /\ ~file.exists
    /\ results' = Append(results, FileNotFoundResult)
    /\ pc' = "done"
    /\ UNCHANGED <<validator, apart, csv_columns, csv_data, missing_columns, extra_columns, issues,
                   pending>>

\* validate_file, lines 103-117 and 167-189: reading the file raises
LoadRaises ==
    /\ pc = "ready"
    /\ ~file.stat_raises
    /\ file.exists
    /\ ~file.readable
    /\ results' = Append(results, ParseErrorResult)
    /\ pc' = "done"
    /\ UNCHANGED <<validator, apart, csv_columns, csv_data, missing_columns, extra_columns, issues,
                   pending>>

\* a variant that keeps only the columns of the header that the schema names
LoadSchemaColumns ==
    /\ pc = "ready"
    /\ ~file.stat_raises
    /\ file.exists
    /\ file.readable
    /\ csv_columns' = SelectSeq(file.header, LAMBDA col : col \in DOMAIN schema_fields)
    /\ csv_data' = [i \in 1..Len(file.rows) |-> DictRow(file.header, file.rows[i])]
    /\ issues' = <<>>
    /\ pc' = "loaded"
    /\ UNCHANGED <<validator, apart, missing_columns, extra_columns, pending, results>>

\* validate_file, lines 103-119: the file is read
Load ==
    /\ pc = "ready"
    /\ ~file.stat_raises
    /\ file.exists
    /\ file.readable
    /\ csv_columns' = file.header
    /\ csv_data' = [i \in 1..Len(file.rows) |-> DictRow(file.header, file.rows[i])]
    /\ issues' = <<>>
    /\ pc' = "loaded"
    /\ UNCHANGED <<validator, apart, missing_columns, extra_columns, pending, results>>

\* _check_missing_columns: a list in the iteration order of the set
\* required_columns, which the hash seed of the process decides
check_missing_columns(columns) ==
    OrderedBy({col \in required_columns : col \notin Range(columns)},
              hash_seed.required)

\* a variant that takes the columns of the optional fields as extra too
check_not_required_columns(columns) ==
    LET keep == {i \in 1..Len(columns) : columns[i] \notin required_columns}
        nth(k) == CHOOSE i \in keep : Cardinality({j \in keep : j < i}) = k - 1
    IN [k \in 1..Cardinality(keep) |-> columns[nth(k)]]

\* _check_extra_columns
check_extra_columns(columns) ==
    LET keep == {i \in 1..Len(columns) : columns[i] \notin DOMAIN schema_fields}
        nth(k) == CHOOSE i \in keep : Cardinality({j \in keep : j < i}) = k - 1
    IN [k \in 1..Cardinality(keep) |-> columns[nth(k)]]

\* a variant that reports every issue of a column as an error
ColumnIssueAsError(col, issue_type, severity) ==
    ValidationIssue(col, issue_type, "error", NoPattern, NoValue, NoRow)

ColumnIssue(col, issue_type, severity) ==
    ValidationIssue(col, issue_type, severity, NoPattern, NoValue, NoRow)

\* the columns _validate_data_content iterates over
common_columns(data) ==
    LET data_columns == IF data # <<>> THEN DOMAIN data[1] ELSE {}
    IN data_columns \cap DOMAIN schema_fields

\* a variant that reports the extra columns before the missing ones
CheckColumnsExtraFirst ==
    /\ pc = "loaded"
    /\ LET missing == check_missing_columns(csv_columns)
           extra == check_extra_columns(csv_columns)
       IN /\ missing_columns' = missing
          /\ extra_columns' = extra
          /\ issues' = issues
                \o [i \in 1..Len(extra) |->
                       ColumnIssue(extra[i], "extra_column", "warning")]
                \o [i \in 1..Len(missing) |->
                       ColumnIssue(missing[i], "missing_column", "error")]
    /\ pending' = common_columns(csv_data)
    /\ pc' = "content"
    /\ UNCHANGED <<validator, apart, csv_columns, csv_data, results>>

\* validate_file, lines 121-146, and _validate_data_content, lines 205-209
CheckColumns ==
    /\ pc = "loaded"
    /\ LET missing == check_missing_columns(csv_columns)
           extra == check_extra_columns(csv_columns)
       IN /\ missing_columns' = missing
          /\ extra_columns' = extra
          /\ issues' = issues
                \o [i \in 1..Len(missing) |->
                       ColumnIssue(missing[i], "missing_column", "error")]
                \o [i \in 1..Len(extra) |->
                       ColumnIssue(extra[i], "extra_column", "warning")]
    /\ pending' = common_columns(csv_data)
    /\ pc' = "content"
    /\ UNCHANGED <<validator, apart, csv_columns, csv_data, results>>

\* the column a common column's checks read
ColumnData(column_name) ==
    [i \in 1..Len(csv_data) |-> RowGet(csv_data[i], column_name)]

ColumnCheck(column_name) ==
    validate_column_data(column_name, ColumnData(column_name),
                         schema_fields[column_name])

\* issues.extend(...) with the issues of a column, line 214
ColumnReturns(column_name, checked) ==
    /\ ~checked.raised
    /\ issues' = issues \o checked.issues
    /\ pending' = pending \ {column_name}

\* the column the loop over the set common_columns reaches next, in the
\* iteration order the hash seed of the process decides
NextColumnName == OrderedBy(pending, hash_seed.common)[1]

\* _validate_data_content, lines 211-214: one iteration of the loop over the
\* set common_columns
ValidateColumn ==
    /\ pc = "content"
    /\ pending # {}
    /\ ColumnReturns(NextColumnName, ColumnCheck(NextColumnName))
    /\ UNCHANGED <<validator, apart, pc,
                   csv_columns, csv_data, missing_columns, extra_columns, results>>

\* an exception raised by a cell's check reaches the except clause of
\* validate_file, lines 167-189
ValidateColumnRaises ==
    /\ pc = "content"
    /\ pending # {}
    /\ ColumnCheck(NextColumnName).raised
    /\ results' = Append(results, ParseErrorResult)
    /\ pc' = "done"
    /\ UNCHANGED <<validator, apart, csv_columns, csv_data, missing_columns, extra_columns, issues,
                   pending>>

\* a variant that is valid only without any issue
NormalResultWithoutIssues ==
    ValidationResult(file.path, schema_name, issues = <<>>,
                     Len(csv_data), Len(csv_columns),
                     issues, missing_columns, extra_columns)

\* the result of lines 154-165
NormalResult ==
    ValidationResult(file.path, schema_name,
                     CountSeverity(issues, "error") = 0,
                     Len(csv_data), Len(csv_columns),
                     issues, missing_columns, extra_columns)

\* validate_file, lines 149-165: every column is checked, the result is built
Assemble ==
    /\ pc = "content"
    /\ pending = {}
    /\ results' = Append(results, NormalResult)
    /\ pc' = "done"
    /\ UNCHANGED <<validator, apart, csv_columns, csv_data, missing_columns, extra_columns, issues,
                   pending>>

Next ==
    \/ ExistsRaises
    \/ FileNotFound
    \/ LoadRaises
    \/ Load
    \/ CheckColumns
    \/ ValidateColumn
    \/ ValidateColumnRaises
    \/ Assemble

Spec == Init /\ [][Next]_vars

\* ------------------------------------------------- properties of the engine
FileLevelTypes == {"file_not_found", "parse_error"}
ColumnLevelTypes == {"missing_column", "extra_column"}

\* a result of the normal path: the file existed and nothing raised
NormalPath(r) == \A j \in DOMAIN r.issues : r.issues[j].issue_type \notin FileLevelTypes

HasSeverity(r, severity) == \E j \in DOMAIN r.issues : r.issues[j].severity = severity

\* C1: every result validate_file returns, on any of its three paths, has
\* is_valid true exactly when none of its issues has the severity error.
C1_IsValidIffNoError ==
    \A k \in DOMAIN results : results[k].is_valid <=> ~HasSeverity(results[k], "error")

\* a returned result that is valid although it holds a warning
C1_Witness ==
    \E k \in DOMAIN results :
        /\ results[k].is_valid
        /\ HasSeverity(results[k], "warning")

\* the names of the required fields of the schema that the header lacks
RequiredAbsent ==
    {schema[i].name : i \in {j \in DOMAIN schema :
        schema[j].required /\ schema[j].name \notin Range(file.header)}}

MissingColumnIssues(r, col) ==
    {j \in DOMAIN r.issues : /\ r.issues[j].issue_type = "missing_column"
                             /\ r.issues[j].field_name = col}

\* C2: on the normal path missing_columns holds, once each, the names of the
\* fields with required = true that are absent from the header, whatever
\* their nullable flag, and no name of a field with required = false; the
\* issues hold exactly one missing_column issue, an error, per such name.
C2_MissingColumns ==
    \A k \in DOMAIN results :
        NormalPath(results[k]) =>
            /\ Range(results[k].missing_columns) = RequiredAbsent
            /\ Len(results[k].missing_columns) = Cardinality(RequiredAbsent)
            /\ \A col \in RequiredAbsent :
                  /\ Cardinality(MissingColumnIssues(results[k], col)) = 1
                  /\ \A j \in MissingColumnIssues(results[k], col) :
                        results[k].issues[j].severity = "error"
            /\ \A j \in DOMAIN results[k].issues :
                  results[k].issues[j].issue_type = "missing_column"
                      => results[k].issues[j].field_name \in RequiredAbsent

\* a result that reports a required nullable field as missing, while an
\* optional field that is absent too is not reported
C2_Witness ==
    \E k \in DOMAIN results :
        /\ NormalPath(results[k])
        /\ \E i \in DOMAIN schema :
              /\ schema[i].required /\ schema[i].nullable
              /\ schema[i].name \in Range(results[k].missing_columns)
        /\ \E i \in DOMAIN schema :
              /\ ~schema[i].required
              /\ schema[i].name \notin Range(file.header)

\* the header positions of the columns that are in no field of the schema
NotInSchema ==
    {i \in DOMAIN file.header :
        \A j \in DOMAIN schema : schema[j].name # file.header[i]}

ExtraColumnIssues(r) == {j \in DOMAIN r.issues : r.issues[j].issue_type = "extra_column"}

\* C3: on the normal path extra_columns holds the header columns that are not
\* schema fields, in header order, and the issues hold exactly one
\* extra_column issue, a warning, per entry.
C3_ExtraColumns ==
    \A k \in DOMAIN results :
        NormalPath(results[k]) =>
            /\ Len(results[k].extra_columns) = Cardinality(NotInSchema)
            /\ \A n \in DOMAIN results[k].extra_columns :
                  \E i \in NotInSchema :
                      /\ Cardinality({h \in NotInSchema : h < i}) = n - 1
                      /\ results[k].extra_columns[n] = file.header[i]
            /\ Cardinality(ExtraColumnIssues(results[k])) = Len(results[k].extra_columns)
            /\ \A n \in DOMAIN results[k].extra_columns :
                  Cardinality({j \in ExtraColumnIssues(results[k]) :
                      /\ results[k].issues[j].field_name = results[k].extra_columns[n]
                      /\ results[k].issues[j].severity = "warning"}) = 1

\* a result with two extra columns, in the order of the header y, x
C3_Witness ==
    \E k \in DOMAIN results :
        /\ NormalPath(results[k])
        /\ file.header = <<"y", "x">>
        /\ results[k].extra_columns = <<"y", "x">>

\* the result has the shape of a file-level failure: one error issue of the
\* given type for the field "file", nothing counted and nothing listed
FileFailure(r, issue_type) ==
    /\ Len(r.issues) = 1
    /\ r.issues[1].field_name = "file"
    /\ r.issues[1].issue_type = issue_type
    /\ r.issues[1].severity = "error"
    /\ r.total_rows = 0
    /\ r.total_columns = 0
    /\ r.missing_columns = <<>>
    /\ r.extra_columns = <<>>
    /\ r.is_valid = FALSE

RaisingCell ==
    \E i \in DOMAIN file.rows : \E j \in DOMAIN file.rows[i] :
        /\ file.rows[i][j] = DeepArray
        /\ \E f \in DOMAIN schema :
              /\ schema[f].name = file.header[j]
              /\ schema[f].data_type = "json_array"

\* C9: when the file exists and reading it or checking it raises, the result
\* validate_file returns has exactly one issue (field_name "file",
\* parse_error, error), zero totals, empty lists and is_valid false: no issue
\* collected before the exception is in it.
C9_ParseError ==
    /\ (pc = "done" /\ file.exists /\ (~file.readable \/ RaisingCell)) =>
           /\ Len(results) = 1
           /\ FileFailure(results[1], "parse_error")
    /\ \A k \in DOMAIN results :
           ~NormalPath(results[k]) =>
               \/ FileFailure(results[k], "parse_error")
               \/ FileFailure(results[k], "file_not_found")

\* a cell's check raised after issues had been collected for the cells of
\* another column, and the result holds the parse_error alone
C9_Witness ==
    /\ pc = "done"
    /\ RaisingCell
    /\ \E j \in DOMAIN issues : issues[j].row_number # NoRow
    /\ results # <<>>
    /\ results[1].issues[1].issue_type = "parse_error"

PerCell(issue) == issue.issue_type \notin FileLevelTypes \cup ColumnLevelTypes

\* the positions of the issues of a result that are for cells
PerCellIssues(r) == {j \in DOMAIN r.issues : PerCell(r.issues[j])}

\* C7: an issue for the cell at the 0-based data row i carries the row number
\* i + 2 (the first data row is row 2); the missing_column, extra_column,
\* file_not_found and parse_error issues carry no row number.
C7_RowNumbers ==
    \A k \in DOMAIN results : \A j \in DOMAIN results[k].issues :
        IF PerCell(results[k].issues[j])
        THEN \E i \in 0..(Len(file.rows) - 1) :
                /\ results[k].issues[j].row_number = <<i + 2>>
                /\ results[k].issues[j].field_name \in Range(file.header)
                /\ Strip(results[k].issues[j].actual_value)
                     = Strip(Str(DictRow(file.header, file.rows[i + 1])
                                    [results[k].issues[j].field_name]))
        ELSE results[k].issues[j].row_number = NoRow

\* a result with an issue for a cell of the first data row, numbered 2, one
\* for a cell of the second, numbered 3, and an issue for a column
C7_Witness ==
    \E k \in DOMAIN results :
        /\ \E j \in DOMAIN results[k].issues :
              PerCell(results[k].issues[j]) /\ results[k].issues[j].row_number = <<2>>
        /\ \E j \in DOMAIN results[k].issues :
              /\ results[k].issues[j].issue_type = "invalid_integer"
              /\ results[k].issues[j].row_number = <<3>>
        /\ \E j \in DOMAIN results[k].issues :
              results[k].issues[j].issue_type \in ColumnLevelTypes

\* the cells of the columns that are in the schema and in the header for
\* which a cell's check yields an issue
FailingCells ==
    {cell \in (Range(csv_columns) \cap DOMAIN schema_fields) \X (1..Len(csv_data)) :
        ValidateCell(cell[1], RowGet(csv_data[cell[2]], cell[1]),
                     schema_fields[cell[1]], cell[2] - 1).issues # <<>>}

\* C10: on the normal path every cell of every column in both the schema and
\* the header is checked, also after earlier errors: the result holds as
\* many issues for cells as there are cells that fail the required-value
\* check or the type check.
C10_Accumulate ==
    \A k \in DOMAIN results :
        NormalPath(results[k]) =>
            Cardinality(PerCellIssues(results[k])) = Cardinality(FailingCells)

\* a result with issues for both rows of a column and for two columns
C10_Witness ==
    \E k \in DOMAIN results :
        /\ NormalPath(results[k])
        /\ \E j1, j2 \in PerCellIssues(results[k]) :
              /\ results[k].issues[j1].field_name = results[k].issues[j2].field_name
              /\ results[k].issues[j1].row_number = <<2>>
              /\ results[k].issues[j2].row_number = <<3>>
        /\ \E j1, j2 \in PerCellIssues(results[k]) :
              results[k].issues[j1].field_name # results[k].issues[j2].field_name

\* C19: on the normal path total_rows is the number of data rows parsed, 0
\* for a file of a header alone, which has no issue for a cell, and
\* total_columns is the number of columns of the header, in the schema or not.
C19_Totals ==
    \A k \in DOMAIN results :
        NormalPath(results[k]) =>
            /\ results[k].total_rows = Len(file.rows)
            /\ results[k].total_columns = Len(file.header)
            /\ file.rows = <<>> =>
                  /\ results[k].total_rows = 0
                  /\ PerCellIssues(results[k]) = {}

\* a file of a header alone, with one column of the schema and one that is in
\* no schema, has been validated
C19_Witness ==
    /\ results # <<>>
    /\ NormalPath(results[1])
    /\ file.header = <<"a", "x">>
    /\ file.rows = <<>>
    /\ {schema[i].name : i \in DOMAIN schema} = {"a"}
    /\ results[1].total_rows = 0
    /\ results[1].total_columns = 2
    /\ results[1].is_valid

\* the names of the set, in the order in which the schema declares its fields
Declared(names) ==
    SelectSeq([i \in DOMAIN schema |-> schema[i].name], LAMBDA n : n \in names)

\* the field names of the issues of a type, in the order of the issues
NamesOfType(r, issue_type) ==
    LET of_type == SelectSeq(r.issues, LAMBDA issue : issue.issue_type = issue_type)
    IN [j \in DOMAIN of_type |-> of_type[j].field_name]

\* C21: missing_columns, and the missing_column issues made from it, list
\* the missing required fields in the order in which the schema declares
\* them.
C21_MissingInDeclarationOrder ==
    \A k \in DOMAIN results :
        NormalPath(results[k]) =>
            /\ results[k].missing_columns = Declared(RequiredAbsent)
            /\ NamesOfType(results[k], "missing_column") = Declared(RequiredAbsent)

\* the field names of the issues for cells, in the order of the issues, each
\* name once for each run of issues that carry it
RECURSIVE Runs(_)
Runs(names) ==
    IF Len(names) <= 1 THEN names
    ELSE IF names[1] = names[2] THEN Runs(Tail(names))
         ELSE <<names[1]>> \o Runs(Tail(names))

CellIssues(r) == SelectSeq(r.issues, LAMBDA issue : PerCell(issue))

\* C22: the issues for cells come grouped by column, the columns in the order
\* in which the schema declares them, and within a column by ascending row.
C22_CellsInDeclarationOrder ==
    \A k \in DOMAIN results :
        NormalPath(results[k]) =>
            LET cells == CellIssues(results[k])
                names == [j \in DOMAIN cells |-> cells[j].field_name]
            IN /\ Runs(names) = Declared(Range(names))
               /\ \A i, j \in DOMAIN cells :
                     (i < j /\ cells[i].field_name = cells[j].field_name)
                         => cells[i].row_number[1] < cells[j].row_number[1]

\* 1 for a missing_column issue, 2 for an extra_column issue, 3 for an issue
\* for a cell
Stage(issue) ==
    IF issue.issue_type = "missing_column" THEN 1
    ELSE IF issue.issue_type = "extra_column" THEN 2 ELSE 3

\* C23: in a result of the normal path every missing_column issue comes
\* before every extra_column issue, and every extra_column issue before every
\* issue for a cell.
C23_IssuesByStage ==
    \A k \in DOMAIN results :
        NormalPath(results[k]) =>
            \A i, j \in DOMAIN results[k].issues :
                i < j => Stage(results[k].issues[i]) <= Stage(results[k].issues[j])

\* a result with a missing_column issue, an extra_column issue and an issue
\* for a cell
C23_Witness ==
    \E k \in DOMAIN results :
        /\ NormalPath(results[k])
        /\ {Stage(results[k].issues[j]) : j \in DOMAIN results[k].issues} = {1, 2, 3}

\* the cells that the rows of the file lack: a row that is shorter than the
\* header, and a column of the schema that it does not reach
AbsentCells ==
    {cell \in (1..Len(file.rows)) \X (1..Len(file.header)) :
        /\ cell[2] > Len(file.rows[cell[1]])
        /\ file.header[cell[2]] \in DOMAIN schema_fields}

\* the positions of the issues of a result for the cell of a column in the
\* i-th data row
IssuesOfCell(r, col, i) ==
    {j \in DOMAIN r.issues :
        r.issues[j].field_name = col /\ r.issues[j].row_number = <<i + 1>>}

\* C24: a cell that a row lacks, for a column of the schema that is in the
\* header, is taken for the empty string: no issue of any kind when the field
\* is nullable, exactly one issue, a required_field_missing, when the field
\* is required and not nullable.
C24_AbsentCellIsEmpty ==
    \A k \in DOMAIN results :
        NormalPath(results[k]) =>
            \A cell \in AbsentCells :
                LET field == schema_fields[file.header[cell[2]]]
                    found == IssuesOfCell(results[k], field.name, cell[1])
                IN /\ field.nullable => found = {}
                   /\ (field.required /\ ~field.nullable) =>
                         /\ Cardinality(found) = 1
                         /\ \A j \in found :
                               results[k].issues[j].issue_type = "required_field_missing"

\* the issue type of the type check of a data type
InvalidType(data_type) ==
    CASE data_type = "uuid" -> "invalid_uuid"
      [] data_type = "email" -> "invalid_email"
      [] data_type = "url" -> "invalid_url"
      [] data_type = "datetime" -> "invalid_datetime"
      [] data_type = "json_array" -> "invalid_json_array"
      [] data_type = "json_object" -> "invalid_json_object"
      [] data_type = "integer" -> "invalid_integer"
      [] data_type = "float" -> "invalid_float"
      [] data_type = "boolean" -> "invalid_boolean"
      [] OTHER -> "none"

\* the cells of the file under the columns that are in the schema
SchemaCells ==
    (Range(file.header) \cap DOMAIN schema_fields) \X (1..Len(file.rows))

\* C30: on the normal path a cell of a column of the schema, in a data row,
\* gives the result at most one issue, a required_field_missing or the
\* invalid_<type> of its field; no two issues for cells have the same
\* field_name and row_number.
C30_OneIssuePerCell ==
    \A k \in DOMAIN results :
        NormalPath(results[k]) =>
            /\ \A cell \in SchemaCells :
                  LET found == IssuesOfCell(results[k], cell[1], cell[2])
                  IN /\ Cardinality(found) <= 1
                     /\ \A j \in found :
                           results[k].issues[j].issue_type \in
                               {"required_field_missing",
                                InvalidType(schema_fields[cell[1]].data_type)}
            /\ \A i, j \in PerCellIssues(results[k]) :
                  i # j => \/ results[k].issues[i].field_name # results[k].issues[j].field_name
                           \/ results[k].issues[i].row_number # results[k].issues[j].row_number

\* a result of the normal path with a cell that gave a required_field_missing,
\* a cell that gave an invalid_json_array and a cell that gave nothing
C30_Witness ==
    \E k \in DOMAIN results :
        /\ NormalPath(results[k])
        /\ \E c1, c2, c3 \in SchemaCells :
              /\ \E j \in IssuesOfCell(results[k], c1[1], c1[2]) :
                    results[k].issues[j].issue_type = "required_field_missing"
              /\ \E j \in IssuesOfCell(results[k], c2[1], c2[2]) :
                    results[k].issues[j].issue_type = "invalid_json_array"
              /\ IssuesOfCell(results[k], c3[1], c3[2]) = {}

\* ------------------------------------- the same file validated again
\* validate_file is called again for the same file and schema: its locals
\* start afresh
CallAgain ==
    /\ pc = "done"
    /\ Len(results) < MaxValidations
    /\ pc' = "ready"
    /\ csv_columns' = <<>>
    /\ csv_data' = <<>>
    /\ missing_columns' = <<>>
    /\ extra_columns' = <<>>
    /\ issues' = <<>>
    /\ pending' = {}
    /\ UNCHANGED <<validator, unit, construction, lookups, batch, reading, summarising, results>>

\* in the same run of the program
ValidateAgain ==
    /\ CallAgain
    /\ UNCHANGED hash_seed

\* in another run of the program: a process with a hash seed of its own
\* (string hashing is randomized per process)
RunAgain ==
    /\ CallAgain
    /\ hash_seed' \in HashSeedsApart(schema, file.header)

NextTwice == Next \/ ValidateAgain \/ RunAgain

SpecTwice == Init /\ [][NextTwice]_vars

\* C11: validating the same file against the same schema twice, in the same
\* run of the program or in separate runs, yields the same issues sequence,
\* the same missing_columns, the same extra_columns and the same is_valid.
C11_Idempotent ==
    \A k1, k2 \in DOMAIN results :
        /\ results[k1].issues = results[k2].issues
        /\ results[k1].missing_columns = results[k2].missing_columns
        /\ results[k1].extra_columns = results[k2].extra_columns
        /\ results[k1].is_valid = results[k2].is_valid

\* --------------------------- the file validated again with one more column
\* the sequence s with e put at position p
InsertAt(s, p, e) == SubSeq(s, 1, p - 1) \o <<e>> \o SubSeq(s, p, Len(s))

\* the file f with a column of empty cells of the given name at position p of
\* the header; a row too short to reach the position stays as it is
WithColumn(f, name, p) ==
    CsvFile(f.path, f.exists, f.readable, InsertAt(f.header, p, name),
            [i \in DOMAIN f.rows |->
                IF Len(f.rows[i]) >= p - 1 THEN InsertAt(f.rows[i], p, Empty)
                ELSE f.rows[i]])

\* validate_file is called, by the same validator, for the file with a column
\* more that is in no schema
ValidateWidened ==
    /\ pc = "done"
    /\ Len(results) < MaxValidations
    /\ file.exists /\ file.readable
    /\ \E name \in (HeaderNames \ SchemaNames) \ Range(file.header) :
          \E p \in 1..(Len(file.header) + 1) :
              file' = WithColumn(file, name, p)
    /\ pc' = "ready"
    /\ csv_columns' = <<>>
    /\ csv_data' = <<>>
    /\ missing_columns' = <<>>
    /\ extra_columns' = <<>>
    /\ issues' = <<>>
    /\ pending' = {}
    /\ UNCHANGED <<schema, schema_fields, required_columns, schema_name, apart, results>>

NextWiden == Next \/ ValidateWidened

SpecWiden == Init /\ [][NextWiden]_vars

OnlyExtraColumns(r) ==
    \A j \in DOMAIN r.issues :
        r.issues[j].issue_type = "extra_column" /\ r.issues[j].field_name \notin SchemaNames

Timestamp == <<"2","0","2","4","-","0","1","-","1","5"," ",
               "1","0",":","3","0",":","0","0",".","1","2","3">>
IsoTimestamp == <<"2","0","2","4","-","0","1","-","1","5","T",
                  "1","0",":","3","0",":","0","0","Z">>
CanonicalUuid == <<"1","2","3","e","4","5","6","7","-","e","8","9","b","-",
                   "1","2","d","3","-","a","4","5","6","-",
                   "4","2","6","6","1","4","1","7","4","0","0","0">>

\* the cells every column is drawn from, and those for a column of a type
PaddedSeven == <<" ","7"," ">>
CommonCells == {Empty, Blank, Null, PaddedNull, PyNone, Word, Seven, PaddedSeven}
CellsFor(data_type) ==
    CommonCells \cup
    CASE data_type = "integer" -> {<<"-","1","2">>, <<"1",".","5">>}
      [] data_type = "float" -> {<<"1",".","5">>, <<"1","e">>}
      [] data_type = "boolean" -> {<<"T","r","u","e">>, <<"y","e","s">>}
      [] data_type = "uuid" -> {CanonicalUuid, <<"n","o","t","-","a","-","u","u","i","d">>}
      [] data_type = "datetime" -> {Timestamp, IsoTimestamp}
      [] data_type = "json_array" -> {<<"[","]">>, <<"{","}">>, DeepArray}
      [] data_type = "json_object" -> {<<"{","}">>, <<"[","]">>, DeepArray}
      [] data_type = "url" -> {<<"h","t","t","p",":","/","/","a">>, <<"/","a">>}
      [] data_type = "email" -> {<<"a","@","b",".","c","o">>, <<"a","@","b">>}
      [] OTHER -> {}

\* the fields SchemaField constructs for a column named a
ColumnFields ==
    {f \in {SchemaField("a", t, r, nl,
                        IF r /\ ~nl /\ t \notin {"uuid", "datetime"}
                        THEN SomeDefault ELSE NoDefault, fp) :
                t \in DataTypes, r \in BOOLEAN, nl \in BOOLEAN,
                fp \in FormatPatterns} :
        /\ PostInitReturns(f)
        /\ f.data_type # "datetime" => f.format_pattern = NoPattern}

InitColumn ==
    /\ column_field \in ColumnFields
    /\ column_data \in SeqsUpTo(CellsFor(column_field.data_type), MaxColumnLen)
    /\ column_out = NotCalled
    /\ NoValidation
    /\ NoConstruction /\ NoLookup /\ NoBatch /\ NoReading /\ NoSummary

ColumnCall(out) ==
    /\ ~column_out.called
    /\ column_out' = Called(out)
    /\ UNCHANGED <<validator, process, construction, lookups, batch, reading, summarising, engine,
                   column_field, column_data>>

\* _validate_column_data(column_field.name, column_data, column_field)
CallValidateColumnData ==
    ColumnCall(validate_column_data(column_field.name, column_data, column_field))

NextColumn == CallValidateColumnData

SpecColumn == InitColumn /\ [][NextColumn]_vars

\* --------------------------------- properties of _validate_column_data
Returned == column_out.called /\ ~column_out.raised

\* the positions of the issues returned for the 0-based row i
IssuesAtRow(i) ==
    {j \in DOMAIN column_out.issues : column_out.issues[j].row_number = <<i + 2>>}

DataRows == 0..(Len(column_data) - 1)

\* the cells of the text of a file whose trimmed value is empty or is null in
\* any case
NullishCells == {Empty, Blank, Null, PaddedNull}

\* C4: for a field that is required and not nullable, every cell whose
\* trimmed value is empty or null yields exactly one issue, an error of type
\* required_field_missing, and so none of type invalid_<type>.
C4_RequiredFieldMissing ==
    (Returned /\ column_field.required /\ ~column_field.nullable) =>
        \A i \in DataRows :
            column_data[i + 1] \in NullishCells =>
                /\ Cardinality(IssuesAtRow(i)) = 1
                /\ \A j \in IssuesAtRow(i) :
                      /\ column_out.issues[j].issue_type = "required_field_missing"
                      /\ column_out.issues[j].severity = "error"
                      /\ column_out.issues[j].field_name = column_field.name

\* a column of a required, not nullable field of integers with a padded NULL
\* followed by an empty cell has been checked
C4_Witness ==
    /\ Returned
    /\ column_field.required /\ ~column_field.nullable
    /\ column_field.data_type = "integer"
    /\ column_data = <<PaddedNull, Empty>>
    /\ Len(column_out.issues) = 2

\* C5: for a nullable field, required or not and of any type, a cell whose
\* trimmed value is empty or null yields no issue.
C5_NullableSkipped ==
    (Returned /\ column_field.nullable) =>
        \A i \in DataRows :
            column_data[i + 1] \in NullishCells => IssuesAtRow(i) = {}

\* a column of a required nullable field of integers with a null cell and a
\* word has been checked: the word alone has an issue
C5_Witness ==
    /\ Returned
    /\ column_field.required /\ column_field.nullable
    /\ column_field.data_type = "integer"
    /\ column_data = <<Null, Word>>
    /\ Len(column_out.issues) = 1
    /\ column_out.issues[1].row_number = <<3>>

\* what the checker of a type answers for the trimmed sample cells
Accepts(data_type, format_pattern, value) ==
    CASE data_type = "string" -> TRUE
      [] data_type = "integer" -> value \in {Seven, <<"-","1","2">>}
      [] data_type = "float" -> value \in {Seven, <<"1",".","5">>}
      [] data_type = "boolean" -> value = <<"T","r","u","e">>
      [] data_type = "uuid" -> value = CanonicalUuid
      [] data_type = "datetime" ->
            IF format_pattern = TimestampPattern THEN value = Timestamp
            ELSE value \in {Timestamp, IsoTimestamp}
      [] data_type = "json_array" -> value = <<"[","]">>
      [] data_type = "json_object" -> value = <<"{","}">>
      [] data_type = "url" -> value = <<"h","t","t","p",":","/","/","a">>
      [] data_type = "email" -> value = <<"a","@","b",".","c","o">>

\* C6: a cell of text whose trimmed value is not empty and not null is
\* checked by the checker of the field's data type: when the checker rejects
\* it, exactly one issue is returned for it, an error of type invalid_<type>
\* with the trimmed value as actual_value, the row number of the cell and, for
\* a datetime, the field's format pattern as expected_value; when the checker
\* accepts it, none is; a string is always accepted.
C6_TypeDispatch ==
    Returned =>
        \A i \in DataRows :
            (column_data[i + 1] \notin NullishCells /\ column_data[i + 1] # PyNone) =>
                IF Accepts(column_field.data_type, column_field.format_pattern,
                           Strip(column_data[i + 1]))
                THEN IssuesAtRow(i) = {}
                ELSE /\ Cardinality(IssuesAtRow(i)) = 1
                     /\ \A j \in IssuesAtRow(i) :
                           /\ column_out.issues[j].issue_type
                                = "invalid_" \o column_field.data_type
                           /\ column_out.issues[j].severity = "error"
                           /\ column_out.issues[j].field_name = column_field.name
                           /\ column_out.issues[j].actual_value
                                = Strip(column_data[i + 1])
                           /\ column_field.data_type = "datetime" =>
                                 column_out.issues[j].expected_value
                                   = column_field.format_pattern

\* a column of a datetime field with a format pattern has been checked: the
\* timestamp of the pattern is accepted, the ISO one has an issue that
\* carries the pattern
C6_Witness ==
    /\ Returned
    /\ column_field.data_type = "datetime"
    /\ column_field.format_pattern = TimestampPattern
    /\ column_data = <<Timestamp, IsoTimestamp>>
    /\ Len(column_out.issues) = 1
    /\ column_out.issues[1].row_number = <<3>>
    /\ column_out.issues[1].expected_value = TimestampPattern

\* ------------------------------------------------ SchemaField(...) alone
\* the arguments SchemaField is called with
FieldArgs ==
    {SchemaField("a", t, r, nl, d, NoPattern) :
        t \in DataTypes, r \in BOOLEAN, nl \in BOOLEAN, d \in DefaultValues}

InitField ==
    /\ field_args \in FieldArgs
    /\ field_out = NotCalled
    /\ NoLookup /\ NoBatch /\ NoReading /\ NoSummary
    /\ NoValidation
    /\ NoColumnCall

\* SchemaField(...): the dataclass sets the attributes and __post_init__
\* returns or raises ValueError
ConstructSchemaField ==
    /\ ~field_out.called
    /\ field_out' = [called |-> TRUE, raised |-> ~PostInitReturns(field_args),
                     issues |-> <<>>]
    /\ UNCHANGED <<validator, process, unit, engine, lookups, batch, reading, summarising,
                   field_args>>

NextField == ConstructSchemaField

SpecField == InitField /\ [][NextField]_vars

\* C13: constructing a SchemaField raises exactly when required is true,
\* nullable is false, default_value is None and data_type is neither UUID nor
\* DATETIME; every other combination constructs.
C13_ConstructionFails ==
    field_out.called =>
        (field_out.raised <=>
            /\ field_args.required = TRUE
            /\ field_args.nullable = FALSE
            /\ field_args.default_value = "None"
            /\ field_args.data_type # "uuid"
            /\ field_args.data_type # "datetime")

\* a required, not nullable integer field with the default value False has
\* been constructed
C13_Witness ==
    /\ field_out.called
    /\ ~field_out.raised
    /\ field_args.required /\ ~field_args.nullable
    /\ field_args.data_type = "integer"
    /\ field_args.default_value = FalseDefault

\* ---------------------------------------------------------------------------
\* schema lookups by name
\* ---------------------------------------------------------------------------

UpperChar(c) ==
    IF \E i \in 1..26 : LowerLetters[i] = c
    THEN UpperLetters[CHOOSE i \in 1..26 : LowerLetters[i] = c]
    ELSE c

\* str.upper()
Upper(s) == [i \in 1..Len(s) |-> UpperChar(s[i])]

\* str.capitalize()
Capitalize(s) == [i \in 1..Len(s) |-> IF i = 1 THEN UpperChar(s[i]) ELSE LowerChar(s[i])]

Seller == <<"s","e","l","l","e","r">>
Listing == <<"l","i","s","t","i","n","g">>
SellerMonitoring == <<"s","e","l","l","e","r","_","m","o","n","i","t","o","r","i","n","g">>
SellerMonitoringEvents == SellerMonitoring \o <<"_","e","v","e","n","t","s">>

\* the names of the built-in schemas
BuiltInNames == {Seller, Listing, SellerMonitoring, SellerMonitoringEvents}

\* names no module registers
OtherNames == {<<"b","u","y","e","r">>, <<>>, <<" ","s","e","l","l","e","r">>}

\* the names looked up: each in lower case, upper case and capitalised
LookupNames ==
    UNION {{n, Upper(n), Capitalize(n)} : n \in BuiltInNames \cup OtherNames}

\* the schema constants of schemas.py and monitoring_schemas.py
SchemaOf(name) ==
    CASE name = Seller -> "SELLER_SCHEMA"
      [] name = Listing -> "LISTING_SCHEMA"
      [] name = SellerMonitoring -> "SELLER_MONITORING_SCHEMA"
      [] name = SellerMonitoringEvents -> "SELLER_MONITORING_EVENTS_SCHEMA"

\* what a lookup does: it returns a value or raises ValueError
LookupReturns(value) == [raised |-> FALSE, value |-> value]
LookupRaises == [raised |-> TRUE, value |-> "ValueError"]

\* schemas.get_schema_by_name
get_schema_by_name(name) ==
    LET schemas == {Seller, Listing}
        lowered == Lower(name)
    IN  IF lowered \notin schemas
        THEN LookupRaises
        ELSE LookupReturns(SchemaOf(lowered))

\* monitoring_schemas.get_monitoring_schema_by_name: dict.get(key, [])
get_monitoring_schema_by_name(name) ==
    LET schemas == {SellerMonitoring, SellerMonitoringEvents}
    IN  IF Lower(name) \in schemas
        THEN LookupReturns(SchemaOf(Lower(name)))
        ELSE LookupReturns("[]")

\* test_runner.get_schema_by_name: dict.get(key)
test_runner_get_schema_by_name(name) ==
    LET schemas == {Seller, Listing}
    IN  IF Lower(name) \in schemas
        THEN LookupReturns(SchemaOf(Lower(name)))
        ELSE LookupReturns("None")

InitLookup ==
    /\ lookups = {}
    /\ NoBatch
    /\ NoReading /\ NoSummary
    /\ NoValidation
    /\ NoColumnCall
    /\ NoConstruction

Lookup(function, name, out) ==
    /\ Cardinality(lookups) < MaxLookups
    /\ lookups' = lookups \cup
           {[function |-> function, name |-> name,
             raised |-> out.raised, value |-> out.value]}
    /\ UNCHANGED <<validator, unit, process, construction, engine, batch, reading, summarising>>

GetSchemaByName ==
    \E name \in LookupNames :
        Lookup("schemas.get_schema_by_name", name, get_schema_by_name(name))

GetMonitoringSchemaByName ==
    \E name \in LookupNames :
        Lookup("monitoring_schemas.get_monitoring_schema_by_name", name,
               get_monitoring_schema_by_name(name))

TestRunnerGetSchemaByName ==
    \E name \in LookupNames :
        Lookup("test_runner.get_schema_by_name", name,
               test_runner_get_schema_by_name(name))

NextLookup ==
    \/ GetSchemaByName
    \/ GetMonitoringSchemaByName
    \/ TestRunnerGetSchemaByName

SpecLookup == InitLookup /\ [][NextLookup]_vars

\* C14: every schema lookup function signals failure to its caller when the
\* name it is given, lower-cased, is not a registered name: it returns no
\* value, not an empty schema and not None.
C14_UnknownNameFails ==
    \A l \in lookups :
        Lower(l.name) \notin BuiltInNames => l.raised

\* the lookup l returned the schema of the name it was given
Resolved(l) == ~l.raised /\ l.value = SchemaOf(Lower(l.name))

\* C15: one lookup resolves all four built-in names: given any of the four in
\* any letter case, it returns the schema of that name.
C15_OneMapping ==
    \E function \in {"schemas.get_schema_by_name",
                     "monitoring_schemas.get_monitoring_schema_by_name",
                     "test_runner.get_schema_by_name"} :
        \A l \in lookups :
            (l.function = function /\ Lower(l.name) \in BuiltInNames)
                => Resolved(l)

\* ---------------------------------------------------------------------------
\* BatchValidator
\* ---------------------------------------------------------------------------

\* A path argument: a str or a Path object made of a text.  A text is held as
\* the sequence of its components, the parts that "/" separates.
FilePath(type, parts) == [type |-> type, parts |-> parts]

\* Path(text), as str() shows it: pathlib drops the components "." and shows
\* the path without any component as "."
PathParts(parts) ==
    LET kept == SelectSeq(parts, LAMBDA part : part # ".")
    IN IF kept = <<>> THEN <<".">> ELSE kept

\* str(file_path)
PathStr(file_path) ==
    IF file_path.type = "Path" THEN PathParts(file_path.parts) ELSE file_path.parts

\* The schemas given to the batch validator: one required integer field a, or
\* one required field b of JSON arrays.
SchemaA == <<SchemaField("a", "integer", TRUE, TRUE, NoDefault, NoPattern)>>
SchemaB == <<SchemaField("b", "json_array", TRUE, TRUE, NoDefault, NoPattern)>>
BatchSchemas == {SchemaA, SchemaB}

\* The files on the disk, by name.  The working directory holds data.csv and
\* broken.csv, the directory exports the three other files.
SellerRows == CsvFile("Seller_rows.csv", TRUE, TRUE, <<"a">>, <<<<Seven>>>>)
ListingRows == CsvFile("Listing_rows.csv", TRUE, TRUE, <<"b">>, <<<<DeepArray>>>>)
Notes == CsvFile("notes.txt", TRUE, FALSE, <<>>, <<>>)
DataCsv == CsvFile("data.csv", TRUE, TRUE, <<"a", "x">>, <<<<Seven, Empty>>>>)
BrokenCsv == CsvFile("broken.csv", TRUE, FALSE, <<>>, <<>>)
MissingCsv == CsvFile("missing.csv", FALSE, FALSE, <<>>, <<>>)
Disk == {SellerRows, ListingRows, Notes, DataCsv, BrokenCsv, OverlongPath}

\* the file at a path, or the lack of one
FileAt(parts) ==
    LET name == parts[Len(parts)]
        found == {f \in Disk : f.path = name}
    IN [(IF found = {} THEN MissingCsv ELSE CHOOSE f \in found : TRUE)
            EXCEPT !.path = parts]

\* the paths validate_files is given
PairPaths ==
    {FilePath("str", <<"missing.csv">>),
     FilePath("str", <<"broken.csv">>),
     FilePath("str", <<"overlong.csv">>),
     FilePath("str", <<"data.csv">>),
     FilePath("str", <<".", "data.csv">>),
     FilePath("Path", <<".", "data.csv">>)}

FilesCalls ==
    {[method |-> "validate_files", file_schema_pairs |-> pairs] :
        pairs \in SeqsUpTo([file_path : PairPaths, schema : BatchSchemas], MaxPairs)}

\* what validate_directory is given: a directory, which the system lists in
\* some order, a dict of schemas by name, and None or a dict of patterns by
\* name, a dict being held as the sequence of its items
DirectoryFiles == {"Seller_rows.csv", "Listing_rows.csv", "notes.txt"}
PatternNames == {"seller", "listing"}
Patterns == {"*Seller_rows*.csv", "*Listing_rows*.csv", "*.csv"}
\* file_patterns: None, or a dict
NoPatterns == [is_none |-> TRUE, items |-> <<>>]
PatternsDict(items) == [is_none |-> FALSE, items |-> items]
DefaultPatterns ==
    <<<<"seller", "*Seller_rows*.csv">>, <<"listing", "*Listing_rows*.csv">>>>

\* Path.glob: whether the pattern matches the name of a file of the directory
Matches(pattern, name) ==
    CASE pattern = "*Seller_rows*.csv" -> name = "Seller_rows.csv"
      [] pattern = "*Listing_rows*.csv" -> name = "Listing_rows.csv"
      [] pattern = "*.csv" -> name \in {"Seller_rows.csv", "Listing_rows.csv"}

Dicts(keys, values) ==
    {d \in SeqsUpTo(keys \X values, MaxPatterns) :
        \A i, j \in DOMAIN d : i # j => d[i][1] # d[j][1]}

DirectoryCalls ==
    {[method |-> "validate_directory", directory_path |-> FilePath("str", dir),
      listing |-> listing, schema_mapping |-> mapping, file_patterns |-> patterns] :
        dir \in {<<"exports">>, <<".", "exports">>},
        listing \in Orders(DirectoryFiles),
        mapping \in Dicts(PatternNames, BatchSchemas),
        patterns \in {NoPatterns}
                     \cup {PatternsDict(d) : d \in Dicts(PatternNames, Patterns)}}

DictKeys(d) == {d[i][1] : i \in DOMAIN d}
DictGet(d, key) == d[CHOOSE i \in DOMAIN d : d[i][1] = key][2]

\* what one pass of a loop validates: a path, against a schema, by a validator
\* of a schema name
Job(file_path, schema_, name) ==
    [file_path |-> file_path, schema |-> schema_, schema_name |-> name]

\* a variant whose validators are named after the schema of the pair
FilesJobsNamed(pairs) ==
    [i \in DOMAIN pairs |->
        Job(pairs[i].file_path, pairs[i].schema,
            IF pairs[i].schema = SchemaA THEN "seller" ELSE "listing")]

\* validate_files, lines 545-546: a new validator for each pair, whose
\* schema_name is the one __init__ gives
FilesJobs(pairs) ==
    [i \in DOMAIN pairs |-> Job(pairs[i].file_path, pairs[i].schema, "unknown")]

\* a variant that leaves the schema name of the validator as __init__ gave it
DirectoryJobUnnamed(file_path, schema_, name) == Job(file_path, schema_, "unknown")

\* validate_directory, lines 518-525: the validator of a pattern is given the
\* name of the pattern
DirectoryJob(file_path, schema_, name) == Job(file_path, schema_, name)

\* directory_path.glob(pattern): Path objects, in the order of the listing
Glob(call, pattern) ==
    LET names == SelectSeq(call.listing, LAMBDA name : Matches(pattern, name))
    IN [i \in DOMAIN names |->
           FilePath("Path", PathParts(call.directory_path.parts) \o <<names[i]>>)]

\* validate_directory, lines 514-526: the files its loops pass, in order
RECURSIVE DirectoryJobs(_, _)
DirectoryJobs(call, patterns) ==
    IF patterns = <<>> THEN <<>>
    ELSE LET name == patterns[1][1]
             matching_files == Glob(call, patterns[1][2])
         IN (IF name \notin DictKeys(call.schema_mapping)
             THEN <<>>
             ELSE [i \in DOMAIN matching_files |->
                      DirectoryJob(matching_files[i],
                                   DictGet(call.schema_mapping, name), name)])
            \o DirectoryJobs(call, Tail(patterns))

\* lines 508-512
PatternsOf(call) ==
    IF call.file_patterns.is_none THEN DefaultPatterns ELSE call.file_patterns.items

Jobs ==
    IF batch_call.method = "validate_files"
    THEN FilesJobs(batch_call.file_schema_pairs)
    ELSE DirectoryJobs(batch_call, PatternsOf(batch_call))

InitBatch ==
    /\ NoReading /\ NoSummary
    /\ batch_call \in FilesCalls \cup DirectoryCalls
    /\ batch_pc = "loop"
    /\ batch_index = 0
    /\ batch_results = <<>>
    /\ NoValidation
    /\ NoColumnCall
    /\ NoConstruction
    /\ NoLookup

\* CSVSchemaValidator(schema) and validator.validate_file(file_path) is called
BatchValidate ==
    /\ batch_pc = "loop"
    /\ batch_index < Len(Jobs)
    /\ LET job == Jobs[batch_index + 1]
       IN /\ schema' = job.schema
          /\ schema_fields' = InitSchemaFields(job.schema)
          /\ required_columns' = InitRequiredColumns(job.schema)
          /\ schema_name' = job.schema_name
          /\ file' = FileAt(PathParts(job.file_path.parts))
    /\ pc' = "ready"
    /\ csv_columns' = <<>>
    /\ csv_data' = <<>>
    /\ missing_columns' = <<>>
    /\ extra_columns' = <<>>
    /\ issues' = <<>>
    /\ pending' = {}
    /\ batch_pc' = "validating"
    /\ UNCHANGED <<unit, process, construction, lookups, reading, summarising, results,
                   batch_call, batch_index, batch_results>>

\* a variant that keeps the entry a key has
SetDefault(d, key, value) ==
    [k \in DOMAIN d \cup {key} |-> IF k \in DOMAIN d THEN d[k] ELSE value]

\* d[key] = value
SetItem(d, key, value) ==
    [k \in DOMAIN d \cup {key} |-> IF k = key THEN value ELSE d[k]]

\* results[str(file_path)] = result
BatchStore ==
    /\ batch_pc = "validating"
    /\ pc = "done"
    /\ batch_results' = SetItem(batch_results,
                                PathStr(Jobs[batch_index + 1].file_path),
                                results[Len(results)])
    /\ batch_index' = batch_index + 1
    /\ batch_pc' = "loop"
    /\ pc' = "idle"
    /\ UNCHANGED <<validator, unit, process, construction, lookups, reading, summarising,
                   batch_call,
                   csv_columns, csv_data, missing_columns, extra_columns,
                   issues, pending, results>>

\* validate_file raises: neither method has a try statement
BatchRaises ==
    /\ batch_pc = "validating"
    /\ pc = "raised"
    /\ batch_pc' = "raised"
    /\ UNCHANGED <<validator, unit, process, construction, lookups, reading, summarising, engine,
                   batch_call, batch_index, batch_results>>

\* return results
BatchReturn ==
    /\ batch_pc = "loop"
    /\ batch_index = Len(Jobs)
    /\ batch_pc' = "returned"
    /\ UNCHANGED <<validator, unit, process, construction, lookups, reading, summarising, engine,
                   batch_call, batch_index, batch_results>>

NextBatch ==
    \/ Next
    \/ BatchValidate
    \/ BatchStore
    \/ BatchRaises
    \/ BatchReturn

SpecBatch == InitBatch /\ [][NextBatch]_vars

\* ------------------------------------------------ properties of the batch
\* the pairs validate_files was given
GivenPairs == batch_call.file_schema_pairs

\* the identifier of the k-th pair: the key its result is stored under
Identifier(k) == PathStr(GivenPairs[k].file_path)

\* the pairs the loop has passed that carry the identifier
Carrying(id) == {k \in 1..batch_index : Identifier(k) = id}

\* the engine has returned for the pair the loop is at, and the result is
\* not stored yet
ResultInHand == batch_pc = "validating" /\ pc = "done"

\* C16: validate_files runs the engine once for each pair, in the order of
\* the pairs; when the loop has passed a prefix of the pairs, the mapping has
\* exactly one entry for each identifier of the prefix, and it is the result
\* of the last pair of the prefix that carries the identifier.
C16_OncePerPairLastWins ==
    batch_call.method = "validate_files" =>
        /\ Len(results) = batch_index + (IF ResultInHand THEN 1 ELSE 0)
        /\ \A k \in DOMAIN results :
              results[k].file_path = PathParts(GivenPairs[k].file_path.parts)
        /\ batch_pc = "validating" =>
              /\ schema = GivenPairs[batch_index + 1].schema
              /\ file = FileAt(PathParts(GivenPairs[batch_index + 1].file_path.parts))
        /\ DOMAIN batch_results = {Identifier(k) : k \in 1..batch_index}
        /\ \A id \in DOMAIN batch_results :
              batch_results[id] = results[SetMax(Carrying(id))]

\* two pairs of one identifier, spelled differently, have been passed, and
\* the mapping holds the result of the second, which is not that of the first
C16_Witness ==
    /\ batch_call.method = "validate_files"
    /\ batch_index = 2
    /\ GivenPairs[1].file_path = FilePath("str", <<"data.csv">>)
    /\ GivenPairs[2].file_path = FilePath("Path", <<".", "data.csv">>)
    /\ DOMAIN batch_results = {<<"data.csv">>}
    /\ batch_results[<<"data.csv">>] = results[2]
    /\ results[1] # results[2]

\* the file of the k-th pair is missing, or cannot be read or parsed
StructuralFailure(k) ==
    LET f == FileAt(PathParts(GivenPairs[k].file_path.parts))
    IN ~f.exists \/ ~f.readable

\* C17: in validate_files a file that is missing or cannot be parsed is
\* recorded as the failed result of one issue of that file, no exception
\* reaches the caller, and every pair after it is validated and is in the
\* mapping returned.
C17_FailureIsolated ==
    batch_call.method = "validate_files" =>
        /\ batch_pc # "raised"
        /\ batch_pc = "returned" =>
              \A k \in DOMAIN GivenPairs :
                  /\ Identifier(k) \in DOMAIN batch_results
                  /\ (StructuralFailure(k) /\ k = SetMax(Carrying(Identifier(k)))) =>
                        \/ FileFailure(batch_results[Identifier(k)], "file_not_found")
                        \/ FileFailure(batch_results[Identifier(k)], "parse_error")

\* the patterns validate_directory goes by, and the names of the schemas
GivenPatterns == PatternsOf(batch_call)
MappedNames == DictKeys(batch_call.schema_mapping)

\* the path of a file of the directory, as glob gives it
InDirectory(name) == PathParts(batch_call.directory_path.parts) \o <<name>>

\* the patterns, by position, that match the file and whose name is mapped
MatchedBy(name) ==
    {i \in DOMAIN GivenPatterns :
        /\ GivenPatterns[i][1] \in MappedNames
        /\ Matches(GivenPatterns[i][2], name)}

\* the required fields of the schema that the header of the file lacks
Lacking(schema_, f) ==
    {schema_[i].name : i \in {j \in DOMAIN schema_ :
        schema_[j].required /\ schema_[j].name \notin Range(f.header)}}

\* the result is one of validating the file against the schema
ResultOf(r, schema_, f) ==
    /\ r.file_path = f.path
    /\ IF f.readable /\ ~(schema_ = SchemaB /\ f.rows = <<<<DeepArray>>>>)
       THEN NormalPath(r) /\ Range(r.missing_columns) = Lacking(schema_, f)
       ELSE FileFailure(r, "parse_error")

\* C18: validate_directory validates each file a named pattern matches
\* against the schema that schema_mapping holds under the name of the
\* pattern, by a validator labelled with that name; a pattern whose name
\* schema_mapping lacks is passed over without an error and leaves no entry.
C18_DirectoryBySchemaName ==
    batch_call.method = "validate_directory" =>
        /\ batch_pc # "raised"
        /\ batch_pc = "validating" =>
              /\ schema_name \in MappedNames
              /\ schema_name \in DictKeys(GivenPatterns)
              /\ schema = DictGet(batch_call.schema_mapping, schema_name)
              /\ \E name \in DirectoryFiles :
                    /\ file.path = InDirectory(name)
                    /\ Matches(DictGet(GivenPatterns, schema_name), name)
        /\ batch_pc = "returned" =>
              /\ DOMAIN batch_results =
                     {InDirectory(name) : name \in {n \in DirectoryFiles : MatchedBy(n) # {}}}
              /\ \A name \in {n \in DirectoryFiles : MatchedBy(n) # {}} :
                    LET r == batch_results[InDirectory(name)]
                        last == GivenPatterns[SetMax(MatchedBy(name))][1]
                    IN /\ r.schema_name = last
                       /\ ResultOf(r, DictGet(batch_call.schema_mapping, last),
                                   FileAt(InDirectory(name)))

\* validate_directory has returned: the pattern named seller, which matches
\* two files, was passed over for want of a schema, and both files are
\* validated as listing
C18_Witness ==
    /\ batch_call.method = "validate_directory"
    /\ batch_pc = "returned"
    /\ GivenPatterns = <<<<"seller", "*.csv">>, <<"listing", "*.csv">>>>
    /\ MappedNames = {"listing"}
    /\ Cardinality(DOMAIN batch_results) = 2
    /\ \A key \in DOMAIN batch_results : batch_results[key].schema_name = "listing"

\* C28: every entry of the mapping of validate_files and of validate_directory
\* has for key the file_path of its result, whether the identifier was given
\* as a string or as a path object, in normalized form or not.
C28_KeyIsFilePath ==
    \A key \in DOMAIN batch_results : key = batch_results[key].file_path

Severities == {"error", "warning", "info", "critical"}

SampleIssue(severity) ==
    ValidationIssue("a", "invalid_integer", severity, NoPattern, NoValue, NoRow)

InitCounts ==
    /\ \E severities \in SeqsUpTo(Severities, MaxIssues - 1) : \E valid \in BOOLEAN :
          held = ValidationResult("data.csv", "unknown", valid, 0, 0,
                     [i \in DOMAIN severities |-> SampleIssue(severities[i])],
                     <<>>, <<>>)
    /\ counts = NotRead
    /\ NoSummary
    /\ NoBatch
    /\ NoValidation
    /\ NoColumnCall
    /\ NoConstruction
    /\ NoLookup

\* result.issues.append(issue): what was read before is of the shorter list
AppendIssue ==
    /\ Len(held.issues) < MaxIssues
    /\ \E severity \in Severities :
          held' = [held EXCEPT !.issues = Append(@, SampleIssue(severity))]
    /\ counts' = NotRead
    /\ UNCHANGED <<validator, unit, process, construction, lookups, batch, engine,
                   summarising>>

\* result.error_count, result.warning_count and result.info_count are read
ReadCounts ==
    /\ counts' = [read |-> TRUE, error |-> error_count(held),
                  warning |-> warning_count(held), info |-> info_count(held)]
    /\ UNCHANGED <<validator, unit, process, construction, lookups, batch, engine, held,
                   summarising>>

NextCounts == AppendIssue \/ ReadCounts

SpecCounts == InitCounts /\ [][NextCounts]_vars

\* the number of the issues of the severity, counted one by one
RECURSIVE Tally(_, _)
Tally(issues_, severity) ==
    IF issues_ = <<>> THEN 0
    ELSE (IF Head(issues_).severity = severity THEN 1 ELSE 0)
         + Tally(Tail(issues_), severity)

\* C20: error_count, warning_count and info_count of a result are the numbers
\* of its issues of severity error, warning and info, as the issues list is
\* when the count is read.
C20_DerivedCounts ==
    counts.read =>
        /\ counts.error = Tally(held.issues, "error")
        /\ counts.warning = Tally(held.issues, "warning")
        /\ counts.info = Tally(held.issues, "info")

\* the counts are read after an issue was appended to a result that was made
\* valid and without errors, and they count the appended error
C20_Witness ==
    /\ counts.read
    /\ held.is_valid
    /\ Len(held.issues) = MaxIssues
    /\ held.issues[MaxIssues].severity = "error"
    /\ \E j \in DOMAIN held.issues : held.issues[j].severity = "critical"
    /\ counts.error = 1
    /\ counts.warning = 1
    /\ counts.info = 0

\* ---------------------------------------------------------------------------
\* the checkers of UUID and integer cells
\* ---------------------------------------------------------------------------

\* the canonical sample without its hyphens, in braces, and as a URN
Hex32 == Remove(CanonicalUuid, <<"-">>)
Braced == <<"{">> \o CanonicalUuid \o <<"}">>
Urn == <<"u","r","n",":","u","u","i","d",":">> \o CanonicalUuid
\* the canonical sample with a letter that is no hexadecimal digit
NotHex == [CanonicalUuid EXCEPT ![1] = "g"]

UuidCells ==
    {CanonicalUuid, Upper(CanonicalUuid), Hex32, Braced, Urn, NotHex,
     SubSeq(CanonicalUuid, 1, 35), <<"n","o","t","-","a","-","u","u","i","d">>}

IntegerCells ==
    {Seven, <<"-","1","2">>, <<"+","7">>, <<"0","0","7">>, <<"1",".","5">>,
     <<"1",",","0","0","0">>, <<"1","_","0","0","0">>, <<"-">>, <<"7","x">>}

CheckedCells(data_type) ==
    {Empty, PaddedSeven} \cup (IF data_type = "uuid" THEN UuidCells ELSE IntegerCells)

\* _validate_column_data is called for a column of UUIDs or of integers
InitChecked ==
    /\ column_field \in {f \in ColumnFields : f.data_type \in {"uuid", "integer"}}
    /\ column_data \in SeqsUpTo(CheckedCells(column_field.data_type), MaxColumnLen)
    /\ column_out = NotCalled
    /\ NoValidation
    /\ NoConstruction /\ NoLookup /\ NoBatch /\ NoReading /\ NoSummary

SpecChecked == InitChecked /\ [][NextColumn]_vars

\* 8-4-4-4-12 hexadecimal digits, in either letter case, with hyphens between
CanonicalForm(value) ==
    /\ Len(value) = 36
    /\ \A i \in 1..36 :
          IF i \in {9, 14, 19, 24} THEN value[i] = "-" ELSE value[i] \in HexDigits

\* an optional sign, then one or more decimal digits
SignedDigits(value) ==
    LET digits == IF value # <<>> /\ value[1] \in {"+", "-"} THEN Tail(value) ELSE value
    IN digits # <<>> /\ AllIn(digits, Digits)

\* the cell of the 0-based row i, trimmed, is checked against the type, and
\* it gets no issue when ok holds and one issue of the type otherwise
CheckedAs(i, ok, issue_type) ==
    IF ok THEN IssuesAtRow(i) = {}
    ELSE /\ Cardinality(IssuesAtRow(i)) = 1
         /\ \A j \in IssuesAtRow(i) : column_out.issues[j].issue_type = issue_type

\* C25: the UUID checker accepts a value exactly when it is a canonical UUID,
\* 8-4-4-4-12 hexadecimal digits with hyphens, in either letter case; every
\* other form gets an invalid_uuid issue.
C25_CanonicalUuidOnly ==
    (Returned /\ column_field.data_type = "uuid") =>
        \A i \in DataRows :
            column_data[i + 1] \notin NullishCells =>
                CheckedAs(i, CanonicalForm(Strip(column_data[i + 1])), "invalid_uuid")

\* C26: the integer checker accepts a value exactly when it is an optional
\* sign and one or more decimal digits; a value with a decimal point or a
\* separator of digit groups gets an invalid_integer issue.
C26_SignedDigitsOnly ==
    (Returned /\ column_field.data_type = "integer") =>
        \A i \in DataRows :
            column_data[i + 1] \notin NullishCells =>
                CheckedAs(i, SignedDigits(Strip(column_data[i + 1])), "invalid_integer")

\* ---------------------------------------------------------------------------
\* SchemaTestRunner._generate_test_summary
\* ---------------------------------------------------------------------------

\* The results the summary is made of: the results dict of run_full_validation,
\* held as the sequence of its items.  A result is valid when it has no error,
\* as validate_file leaves it.
SummaryKeys == <<<<"Seller_rows.csv">>, <<"Listing_rows.csv">>, <<"Seller_rows_2.csv">>>>

SummaryResult(key, severities) ==
    ValidationResult(key, "unknown", \A i \in DOMAIN severities : severities[i] # "error",
                     0, 0, [i \in DOMAIN severities |-> SampleIssue(severities[i])],
                     <<>>, <<>>)

SummaryCalls ==
    UNION {{[results |-> [i \in 1..n |->
                            <<SummaryKeys[i], SummaryResult(SummaryKeys[i], severities[i])>>],
             include_warnings |-> include_warnings] :
                severities \in [1..n -> SeqsUpTo({"error", "warning", "info"}, 2)],
                include_warnings \in BOOLEAN} :
           n \in 0..MaxSummaryFiles}

\* a variant that passes every valid result
PassesWhenValid(result, include_warnings) == result.is_valid

\* the condition of line 290
Passes(result, include_warnings) ==
    result.is_valid /\ (~include_warnings \/ warning_count(result) = 0)

\* lines 286-289: the three sums, over the items of the dict
RECURSIVE IssueCounts(_)
IssueCounts(items) ==
    IF items = <<>> THEN [total_errors |-> 0, total_warnings |-> 0, total_info |-> 0]
    ELSE LET before == IssueCounts(SubSeq(items, 1, Len(items) - 1))
             result == items[Len(items)][2]
         IN [total_errors |-> before.total_errors + error_count(result),
             total_warnings |-> before.total_warnings + warning_count(result),
             total_info |-> before.total_info + info_count(result)]

\* the file paths of the items that pass, or of those that do not
Files_(items, include_warnings, passing) ==
    LET chosen == SelectSeq(items,
                      LAMBDA item : Passes(item[2], include_warnings) = passing)
    IN [i \in DOMAIN chosen |-> chosen[i][1]]

\* lines 295-309: how many issues of each type the results hold
IssueTypes(items) ==
    LET types == UNION {{items[i][2].issues[j].issue_type :
                            j \in DOMAIN items[i][2].issues} : i \in DOMAIN items}
        holding(i, t) == {j \in DOMAIN items[i][2].issues :
                             items[i][2].issues[j].issue_type = t}
        RECURSIVE upto(_, _)
        upto(i, t) == IF i = 0 THEN 0 ELSE upto(i - 1, t) + Cardinality(holding(i, t))
    IN [t \in types |-> upto(Len(items), t)]

\* the dict returned, without the times; success_rate is held as the fraction
\* it is computed from
generate_test_summary(results_, include_warnings) ==
    LET passed_files == Files_(results_, include_warnings, TRUE)
        failed_files == Files_(results_, include_warnings, FALSE)
        total_files == Len(results_)
    IN [called |-> TRUE,
        total_files |-> total_files,
        passed_count |-> Len(passed_files),
        failed_count |-> Len(failed_files),
        success_rate |-> IF total_files > 0
                         THEN <<Len(passed_files) * 100, total_files>> ELSE <<0, 1>>,
        issue_counts |-> IssueCounts(results_),
        issue_types |-> IssueTypes(results_),
        detailed_results |-> results_,
        passed_files |-> passed_files,
        failed_files |-> failed_files]

InitSummary ==
    /\ summary_call \in SummaryCalls
    /\ summary = [called |-> FALSE]
    /\ NoReading
    /\ NoBatch
    /\ NoValidation
    /\ NoColumnCall
    /\ NoConstruction
    /\ NoLookup

GenerateTestSummary ==
    /\ ~summary.called
    /\ summary' = generate_test_summary(summary_call.results, summary_call.include_warnings)
    /\ UNCHANGED <<validator, unit, process, construction, lookups, batch, reading,
                   engine, summary_call>>

NextSummary == GenerateTestSummary

SpecSummary == InitSummary /\ [][NextSummary]_vars

\* the sum, over the results given, of the issues of the severity
RECURSIVE TallyAll(_, _)
TallyAll(items, severity) ==
    IF items = <<>> THEN 0
    ELSE Tally(Head(items)[2].issues, severity) + TallyAll(Tail(items), severity)

\* C27: the summary takes a file as passed exactly when its result is valid
\* and include_warnings is false or the result has no warning, and as failed
\* otherwise; every file is in exactly one of the two lists, so that the two
\* counts add up to total_files; the three totals are the sums of the counts
\* of the results.
C27_Summary ==
    summary.called =>
        LET given == summary_call.results
        IN /\ \A i \in DOMAIN given :
                 LET passes == /\ given[i][2].is_valid
                               /\ \/ ~summary_call.include_warnings
                                  \/ Tally(given[i][2].issues, "warning") = 0
                     passed == {j \in DOMAIN summary.passed_files :
                                   summary.passed_files[j] = given[i][1]}
                     failed == {j \in DOMAIN summary.failed_files :
                                   summary.failed_files[j] = given[i][1]}
                 IN /\ Cardinality(passed) = (IF passes THEN 1 ELSE 0)
                    /\ Cardinality(failed) = (IF passes THEN 0 ELSE 1)
           /\ summary.passed_count = Len(summary.passed_files)
           /\ summary.failed_count = Len(summary.failed_files)
           /\ summary.total_files = Len(given)
           /\ summary.passed_count + summary.failed_count = summary.total_files
           /\ summary.issue_counts.total_errors = TallyAll(given, "error")
           /\ summary.issue_counts.total_warnings = TallyAll(given, "warning")
           /\ summary.issue_counts.total_info = TallyAll(given, "info")

\* a summary that counts warnings against a file: of two valid results the
\* one with a warning has failed and the one with an info has passed
C27_Witness ==
    /\ summary.called
    /\ summary_call.include_warnings
    /\ Len(summary_call.results) = 2
    /\ summary_call.results[1][2].is_valid
    /\ summary_call.results[2][2].is_valid
    /\ summary.failed_files = <<SummaryKeys[1]>>
    /\ summary.passed_files = <<SummaryKeys[2]>>
    /\ summary.issue_counts.total_warnings = 1
    /\ summary.issue_counts.total_info = 1

====
